---- MODULE Spec2Model ----
(***************************************************************************)
(* A model of src/src/main.rs: the natural-order file listing, the catalog *)
(* reconciliation (Settings::sync) with the batch rename it performs, the  *)
(* Recorder thread and the Player thread.                                  *)
(*                                                                         *)
(* Names are strings; a character is a string of length one.  ControlVector*)
(* values ([i32; 6]) are 6-tuples of integers.                             *)
(***************************************************************************)
EXTENDS Integers, Sequences, FiniteSets, TLC

VARIABLES
    \* ---- the file system (the working directory) ----
    wav,            \* the base names of the *.wav files
    bin,            \* base name -> frames, for the snapshot *.bin files (settings.bin apart)
    wavListFail,    \* the directory cannot be listed for "wav" (fs::read_dir / entry error)
    binListFail,    \* the directory cannot be listed for "bin"
    \* ---- Tracker.settings.recordings ----
    recordings,     \* sequence of [name, controls]
    \* ---- observation of the last Settings::sync call ----
    lastSync,
    \* ---- Recorder thread ----
    rpc,            \* "idle" (blocked at line 1110) or "recording" (blocked at line 1216)
    rqueue,         \* record_receiver: messages in flight
    new_name,       \* the name chosen at lines 1137-1152 (with ".wav")
    errors,         \* the shared error cell
    empty_recording,
    recording_check,
    lastStart,      \* observation of the last StartRecording: the listing and error cell it saw
    initial_silence, \* the callback's flag of line 1163 (TRUE outside a session)
    writer,         \* the samples written to the session's WavWriter, interleaved
    heard,          \* history: the sample pairs delivered to the session's callback, the
                    \*          positions it kept, and its writes of false to the flag
    \* ---- Player thread ----
    ppc,            \* "NoFileLoaded" ('one), "FileLoaded" ('two), "Playing", "Crashed"
    pqueue,         \* audio_receiver: messages in flight
    file,           \* base name of the loaded clip
    length,         \* its duration, in ticks
    playback,       \* [mode, idx]: playback.0's variant and playback.1
    capturing,
    frame,
    previous_frame,
    edited_frame,
    snapshot,       \* the session's SnapShot.frames
    cell,           \* Tracker.snapshot_frame_values
    playing,        \* Tracker.playing ("playback finished")
    capLog,         \* history: the catalog values the session read at its Capture ticks
    savedLog,       \* history: the last snapshot a session persisted, with its capLog
    cellLog,        \* history: the cell at the session's start and after each tick, and
                    \*          whether the session has been in Input mode throughout
    received,       \* history: the type of the message the Player took last, if it took it
                    \*          at line 1300 and started no session with it
    \* ---- the window (AppWindow properties the callbacks read and write) ----
    window,         \* [recording, audio_playback, input_playback, input_recording,
                    \*  current_recording, starting_threads]
    preloaded,      \* Tracker.preloaded
    occured         \* on_check_for_errors: the error it read and has yet to clear

fsVars == <<wav, bin, wavListFail, binListFail>>
syncVars == <<recordings, lastSync>>
hearVars == <<initial_silence, writer, heard>>
recVars == <<rpc, rqueue, new_name, empty_recording, recording_check, lastStart, hearVars>>
playVars == <<ppc, pqueue, file, length, playback, capturing, frame, previous_frame,
              edited_frame, snapshot, cell, playing, capLog, savedLog, cellLog, received>>
uiVars == <<window, preloaded, occured>>
vars == <<fsVars, syncVars, recVars, errors, playVars, uiVars>>

\* ------------------------------------------------------------------ bounds
MaxFiles == 2      \* clips on disk at once
MaxQueue == 2      \* messages in flight to the Recorder
MaxSends == 4      \* messages in flight to the Player
MaxTicks == 3       \* length of a clip, in 20 ms ticks
MaxPending == 0     \* messages the Player has yet to take when a playback button is pressed
MaxSamples == 3     \* sample pairs delivered to the callback in one recording session
MaxBuffer == 2      \* samples of one channel in one callback buffer
MaxListed == 3      \* clips in the directory when the program starts

\* ------------------------------------------------------------------ values
Zero == <<0, 0, 0, 0, 0, 0>>
Dial == <<3, 0, 0, 0, 0, 0>>
ControlVectors == {Zero, Dial}

FallbackMarker == "Default taken..."
SettingsName == "settings"
Placeholder == "Couldn't read files"

\* SnapShot::new
SnapShotNew == << <<Zero, 0>> >>

\* ------------------------------------------------------------------ sequences
Range(seq) == {seq[i] : i \in 1..Len(seq)}

\* Vec::remove(index), 0-based
RemoveAt(seq, index) == SubSeq(seq, 1, index) \o SubSeq(seq, index + 2, Len(seq))

Names(list) == [i \in 1..Len(list) |-> list[i].name]

\* ------------------------------------------------------------------ strings
Char(s, i) == SubSeq(s, i, i)

\* str::contains
Contains(s, sub) ==
    \E i \in 1..(Len(s) - Len(sub) + 1) : SubSeq(s, i, i + Len(sub) - 1) = sub

Digits == "0123456789"
Upper == "ABCDEFGHIJKLMNOPQRSTUVWXYZ"
Lowers == "abcdefghijklmnopqrstuvwxyz"
\* the characters of the names used, in code-point order
Alphabet == " '." \o Digits \o Upper \o Lowers

IndexIn(s, c) == IF \E i \in 1..Len(s) : Char(s, i) = c
                 THEN CHOOSE i \in 1..Len(s) : Char(s, i) = c
                 ELSE 0

\* a split that takes no character for a digit
NoDigit(c) == FALSE

\* char::cmp
Ord(c) == IndexIn(Alphabet, c)

IsDigit(c) == IndexIn(Digits, c) > 0

\* str::to_lowercase
RECURSIVE ToLowercase(_)
ToLowercase(s) ==
    IF s = "" THEN ""
    ELSE LET c == Head(s)
             u == IndexIn(Upper, c)
         IN (IF u > 0 THEN Char(Lowers, u) ELSE c) \o ToLowercase(Tail(s))

\* str::parse::<i32> of a run of digits, as a mathematical integer
RECURSIVE ParseDigits(_)
ParseDigits(s) ==
    IF s = "" THEN 0
    ELSE 10 * ParseDigits(SubSeq(s, 1, Len(s) - 1)) + (IndexIn(Digits, Char(s, Len(s))) - 1)

\* the digits of i32::MAX
I32MaxDigits == "2147483647"

\* a run of digits without its leading zeros
RECURSIVE Significant(_)
Significant(s) == IF s # "" /\ Char(s, 1) = "0" THEN Significant(Tail(s)) ELSE s

\* str::parse::<i32> of a run of digits is Err: the number is above i32::MAX
Overflows(s) ==
    LET d == Significant(s)
    IN \/ Len(d) > Len(I32MaxDigits)
       \/ /\ Len(d) = Len(I32MaxDigits)
          /\ \E i \in 1..Len(d) :
                 /\ SubSeq(d, 1, i - 1) = SubSeq(I32MaxDigits, 1, i - 1)
                 /\ IndexIn(Digits, Char(d, i)) > IndexIn(Digits, Char(I32MaxDigits, i))

\* ------------------------------------------------------------------ TextNum
Text(s) == [kind |-> "Text", text |-> s, number |-> 0]
Number(n) == [kind |-> "Number", text |-> "", number |-> n]

\* what stands in the list for a run at which number.parse().unwrap() panics
Unparsed == [kind |-> "Panic", text |-> "", number |-> 0]

\* lines 136 and 149: TextNum::Number(number.parse().unwrap())
Parsed(s) == IF Overflows(s) THEN Unparsed ELSE Number(ParseDigits(s))

\* the loop body of split_text_and_numbers, from character `index` (0-based) on
RECURSIVE SplitLoop(_, _, _, _, _, _, _)
SplitLoop(input, index, text, number, list, adding_text, adding_number) ==
    IF index >= Len(input) THEN list
    ELSE LET char == Char(input, index + 1)
             last == (index = Len(input) - 1)
         IN IF IsDigit(char)
            THEN LET number1 == number \o char
                     list1 == IF adding_text /\ Len(text) > 0
                              THEN Append(list, Text(text)) ELSE list
                     text1 == IF adding_text /\ Len(text) > 0 THEN "" ELSE text
                     list2 == IF last THEN Append(list1, Parsed(number1))
                              ELSE list1
                 IN SplitLoop(input, index + 1, text1, number1, list2, FALSE, TRUE)
            ELSE LET text1 == text \o char
                     list1 == IF adding_number /\ Len(number) > 0
                              THEN Append(list, Parsed(number)) ELSE list
                     number1 == IF adding_number /\ Len(number) > 0 THEN "" ELSE number
                     list2 == IF last THEN Append(list1, Text(text1)) ELSE list1
                 IN SplitLoop(input, index + 1, text1, number1, list2, TRUE, FALSE)

split_text_and_numbers(input) == SplitLoop(input, 0, "", "", <<>>, FALSE, FALSE)

\* ------------------------------------------------------------------ File::search
I32Max == 2147483647

Min(a, b) == IF a <= b THEN a ELSE b

\* the comparator's (Text, Text) arm: what it adds to <<bias1, bias2>>
TextBias(first, second) ==
    LET n == Min(Len(first), Len(second))
        greater == Cardinality({k \in 1..n : Ord(Char(first, k)) > Ord(Char(second, k))})
        less == Cardinality({k \in 1..n : Ord(Char(first, k)) < Ord(Char(second, k))})
    IN <<greater + (IF Len(first) > Len(second) THEN 1 ELSE 0),
         less + (IF Len(first) < Len(second) THEN 1 ELSE 0)>>

\* the comparator's loop over the items of the shorter list, from `item` on
RECURSIVE BiasLoop(_, _, _, _, _)
BiasLoop(compare1, compare2, item, bias1, bias2) ==
    IF item > Min(Len(compare1), Len(compare2)) THEN <<bias1, bias2>>
    ELSE LET x == compare1[item]
             y == compare2[item]
         IN IF x.kind = "Text" /\ y.kind = "Number" THEN <<I32Max, bias2>>
            ELSE IF x.kind = "Number" /\ y.kind = "Text" THEN <<bias1, I32Max>>
            ELSE IF x.kind = "Text"
                 THEN LET b == TextBias(x.text, y.text)
                      IN BiasLoop(compare1, compare2, item + 1, bias1 + b[1], bias2 + b[2])
                 ELSE BiasLoop(compare1, compare2, item + 1,
                               bias1 + (IF x.number > y.number THEN 1 ELSE 0),
                               bias2 + (IF x.number < y.number THEN 1 ELSE 0))

\* the closure given to sort_by
Compare(string1, string2) ==
    LET compare1 == split_text_and_numbers(ToLowercase(string1))
        compare2 == split_text_and_numbers(ToLowercase(string2))
        bias == BiasLoop(compare1, compare2, 1, 0, 0)
    IN IF Unparsed \in Range(compare1) \cup Range(compare2) THEN "Panic"
       ELSE IF bias[1] > bias[2] THEN "Greater"
       ELSE IF bias[1] < bias[2] THEN "Less"
       ELSE "Equal"

\* the directory: `wav` is the set of clip base names and `bin` maps each snapshot base name to
\* its frames.  fs::read_dir enumerates the names in the order of DirOrder.
DirOrder == <<"<non-unicode 1>", "<non-unicode 2>", "Couldn't read files",
              "Couldn't read name", "Default taken... 1", "Default taken... 2",
              "Recording 1", "Recording 10", "Recording 2", "Recording 3", "Recording 4",
              "a10", "b1", "a2", "ab", "b", "ba", "2b", "10", "a", "2147483647",
              "2147483648", "Recording 3000000000", "settings">>

\* the comparator's answers for the names of the directory, computed once
CompareMemo ==
    [p \in Range(DirOrder) \X Range(DirOrder) |-> Compare(p[1], p[2])] @@ <<>>
Compared(string1, string2) ==
    IF <<string1, string2>> \in DOMAIN CompareMemo THEN CompareMemo[<<string1, string2>>]
    ELSE Compare(string1, string2)

\* what stands for the list of a sort in which the comparator panicked
Panicked == <<"<panic>">>

\* `x` appended to what the sort has so far, if it has not panicked
Kept(sorted, x) == IF sorted = Panicked THEN Panicked ELSE Append(sorted, x)

\* one step of the stable sort: `x` goes in front of the trailing elements it is Less than
RECURSIVE InsertSorted(_, _)
InsertSorted(sorted, x) ==
    IF sorted = <<>> THEN <<x>>
    ELSE IF sorted = Panicked \/ Compared(x, sorted[Len(sorted)]) = "Panic" THEN Panicked
    ELSE IF Compared(x, sorted[Len(sorted)]) = "Less"
         THEN Kept(InsertSorted(SubSeq(sorted, 1, Len(sorted) - 1), x), sorted[Len(sorted)])
         ELSE Append(sorted, x)

\* names.sort_by(...)
RECURSIVE SortBy(_)
SortBy(names) ==
    IF names = <<>> THEN <<>>
    ELSE InsertSorted(SortBy(SubSeq(names, 1, Len(names) - 1)), names[Len(names)])

\* File::truncate, from the loop's state on: `found` stop characters were passed
RECURSIVE TruncateLoop(_, _, _, _, _, _)
TruncateLoop(name, copy, len, found, stop_char, pass) ==
    IF Len(name) >= Len(stop_char)
       /\ SubSeq(name, Len(name) - Len(stop_char) + 1, Len(name)) = stop_char
    THEN IF found = pass THEN SubSeq(name, 1, len)
         ELSE TruncateLoop(SubSeq(name, 1, len), copy, len - 1, found + 1, stop_char, pass)
    ELSE IF len = 1 THEN copy
         ELSE TruncateLoop(SubSeq(name, 1, len), copy, len - 1, found, stop_char, pass)

\* File::truncate; `len` is the 0-based index of the last character
Truncate(name, stop_char, pass) ==
    TruncateLoop(name, name, Len(name) - 1, 0, stop_char, pass)

\* file stems that stand for names OsString::into_string cannot decode
Undecodable == {"<non-unicode 1>", "<non-unicode 2>"}

\* lines 205-216: the name pushed for the directory entry with stem `stem`
ListedName(stem, extension) ==
    IF stem \in Undecodable THEN "Couldn't read name"
    ELSE Truncate(stem \o "." \o extension, ".", 0)

ListedMemo ==
    [p \in Range(DirOrder) \X {"wav", "bin"} |-> ListedName(p[1], p[2])] @@ <<>>

\* File::search over the directory entries: the names with the extension, or ReadError
Search(entries, extension, fail, ordered) ==
    IF fail THEN [ok |-> FALSE, names |-> <<>>, panic |-> FALSE]
    ELSE LET names == [i \in 1..Len(entries) |-> ListedMemo[<<entries[i], extension>>]]
         IN [ok |-> TRUE, names |-> IF ordered THEN SortBy(names) ELSE names,
             panic |-> ordered /\ SortBy(names) = Panicked]

\* ------------------------------------------------------------------ the directory
\* fs::read_dir: the stems of the files present, in directory order
ReadDir(names) == SelectSeq(DirOrder, LAMBDA n : n \in names)

\* std::fs::rename of a clip: the source must exist and the system call must not
\* fail (`fail`); an existing destination is replaced
WavRename(files, old, name, fail) ==
    IF fail \/ old \notin files THEN [ok |-> FALSE, files |-> files]
    ELSE [ok |-> TRUE, files |-> (files \ {old}) \cup {name}]

\* std::fs::rename of a snapshot
BinRename(files, old, name, fail) ==
    IF fail \/ old \notin DOMAIN files THEN [ok |-> FALSE, files |-> files]
    ELSE [ok |-> TRUE,
          files |-> [n \in (DOMAIN files \ {old}) \cup {name} |->
                        IF n = name THEN files[old] ELSE files[n]]]

\* the outcomes of the two system calls of one File::rename
Faults == {"none", "wav", "bin"}

\* File::rename: the clip, then the snapshot; the first failure returns RenameError
FileRename(w, b, old, name, fault) ==
    LET r1 == WavRename(w, old, name, fault = "wav")
        r2 == BinRename(b, old, name, fault = "bin")
    IN IF ~r1.ok THEN [error |-> "RenameError", wav |-> w, bin |-> b,
                       wavOk |-> FALSE, binOk |-> FALSE]
       ELSE IF ~r2.ok THEN [error |-> "RenameError", wav |-> r1.files, bin |-> b,
                            wavOk |-> TRUE, binOk |-> FALSE]
       ELSE [error |-> "None", wav |-> r1.files, bin |-> r2.files,
             wavOk |-> TRUE, binOk |-> TRUE]

\* File::delete: the clip must be removed; the snapshot is removed if it is there
FileDelete(w, b, name) ==
    IF name \notin w THEN [error |-> "DeleteError", wav |-> w, bin |-> b]
    ELSE [error |-> "None",
          wav |-> w \ {name},
          bin |-> [n \in DOMAIN b \ {name} |-> b[n]]]

\* save(DataType::SnapShot(..), name): the file is created or overwritten
SnapShotSave(b, name, frames) ==
    [n \in DOMAIN b \cup {name} |-> IF n = name THEN frames ELSE b[n]]

\* SnapShot::create
SnapShotCreate(b, name) == SnapShotSave(b, name, SnapShotNew)

\* ------------------------------------------------------------------ Recording
RecordingFrom(name, values) == [name |-> name, controls |-> values]
RecordingNew(name) == RecordingFrom(name, Zero)

\* File::exists
Exists(new, old_list) == \E item \in 1..Len(old_list) : new = old_list[item].name

\* the loop of Recording::rename from entry `name` (1-based) on; `st` carries
\* recording_list, the error flags, rename_failed and the directory
RECURSIVE RenameLoop(_, _, _, _)
RenameLoop(old, new, name, st) ==
    IF name > Len(old) THEN st
    ELSE LET o == old[name]
             n == new[name]
             keep == Append(st.list, RecordingFrom(o.name, o.controls))
         IN IF n # o.name
            THEN IF Contains(n, FallbackMarker)
                 THEN [st EXCEPT !.list = keep, !.fallback = TRUE]
                 ELSE IF n = SettingsName
                 THEN [st EXCEPT !.list = keep, !.savefile = TRUE]
                 ELSE IF n = ""
                 THEN [st EXCEPT !.list = keep, !.empty = TRUE]
                 ELSE IF Exists(n, old)
                 THEN [st EXCEPT !.list = keep, !.exists = TRUE]
                 ELSE LET r == FileRename(st.wav, st.bin, o.name, n, st.fault)
                      IN RenameLoop(old, new, name + 1,
                            [st EXCEPT !.list = Append(st.list, RecordingFrom(n, o.controls)),
                                       !.failed = IF r.error # "None" THEN r.error ELSE @,
                                       !.wav = r.wav,
                                       !.bin = r.bin,
                                       !.steps = Append(@, [index |-> name,
                                                            old |-> o.name, new |-> n,
                                                            wavOk |-> r.wavOk,
                                                            binOk |-> r.binOk])])
            ELSE RenameLoop(old, new, name + 1, [st EXCEPT !.list = keep])

\* Recording::rename: the returned list, the returned error ("None" for Ok) and
\* what it did to the directory
RecordingRename(old, new, w, b, fault) ==
    LET st == RenameLoop(old, new, 1,
                  [list |-> <<>>, fallback |-> FALSE, empty |-> FALSE, exists |-> FALSE,
                   savefile |-> FALSE, failed |-> "None", wav |-> w, bin |-> b,
                   fault |-> fault, steps |-> <<>>])
    IN [list |-> st.list,
        error |-> IF st.exists THEN "ExistsError"
                  ELSE IF st.empty THEN "EmptyError"
                  ELSE IF st.fallback THEN "FallbackError"
                  ELSE IF st.savefile THEN "SaveFileRenameError"
                  ELSE st.failed,
        wav |-> st.wav, bin |-> st.bin, steps |-> st.steps]

\* ------------------------------------------------------------------ Settings::sync
\* lines 902-918: the entry of the rebuilt list for one clip name
RECURSIVE RebuildLoop(_, _, _)
RebuildLoop(recs, file_name, recording) ==
    IF recs[recording].name = file_name
    THEN RecordingFrom(file_name, recs[recording].controls)
    ELSE IF recording = Len(recs) THEN RecordingNew(file_name)
    ELSE RebuildLoop(recs, file_name, recording + 1)

\* a rebuild that carries nothing forward
RebuildFresh(recs, file_name) == RecordingNew(file_name)

RebuildOne(recs, file_name) ==
    IF Len(recs) > 0 THEN RebuildLoop(recs, file_name, 1) ELSE RecordingNew(file_name)

\* lines 922-937: the loop over the pending snapshot names for one clip name, from
\* position `fileIx` (1-based) of the `count` positions the loop was started with;
\* `st` carries snapshot_names, the snapshot files and the names passed to
\* SnapShot::create
RECURSIVE SnapshotLoop(_, _, _, _)
SnapshotLoop(file_name, fileIx, count, st) ==
    IF fileIx > count THEN st
    ELSE IF file_name # st.snapshot_names[fileIx]
         THEN SnapshotLoop(file_name, fileIx + 1, count,
                           [st EXCEPT !.bin = SnapShotCreate(@, file_name),
                                      !.created = Append(@, file_name)])
         ELSE [st EXCEPT !.snapshot_names = RemoveAt(@, fileIx - 1)]

\* lines 921-946
SnapshotOne(file_name, st) ==
    IF Len(st.snapshot_names) > 0
    THEN SnapshotLoop(file_name, 1, Len(st.snapshot_names), st)
    ELSE [st EXCEPT !.bin = SnapShotCreate(@, file_name),
                    !.created = Append(@, file_name)]

\* lines 898-948: the loop over file_names, from `name` (1-based) on
RECURSIVE FilesLoop(_, _, _, _)
FilesLoop(recs, file_names, name, st) ==
    IF name > Len(file_names) THEN st
    ELSE FilesLoop(recs, file_names, name + 1,
                   SnapshotOne(file_names[name],
                               [st EXCEPT !.updated_recordings =
                                              Append(@, RebuildOne(recs, file_names[name]))]))

\* lines 889-894: the first "settings" is taken out of the snapshot names
RemoveSettings(snapshot_names) ==
    IF SettingsName \in Range(snapshot_names)
    THEN RemoveAt(snapshot_names,
                  (CHOOSE i \in 1..Len(snapshot_names) :
                      /\ snapshot_names[i] = SettingsName
                      /\ \A j \in 1..(i - 1) : snapshot_names[j] # SettingsName) - 1)
    ELSE snapshot_names

\* lines 871-887: File::search, or the placeholder list when it fails
ListingOr(result) == IF result.ok THEN result.names ELSE <<Placeholder>>

\* a rebuild that is added to the catalog it was built from
Extension(updated_recordings, renamed) == renamed \o updated_recordings

\* line 950: what replaces self.recordings
Replacement(updated_recordings, renamed) == updated_recordings

\* lines 796-849: the dial read, then the pending dial edit and the pending deletion
SyncEdits(recs, ui) ==
    LET dials == IF Len(recs) > 0 THEN ui.current_dial_values ELSE Zero
        edited == IF Len(recs) > 0 /\ ui.dials_edited
                  THEN [recs EXCEPT ![ui.current_recording + 1] =
                                        RecordingFrom(@.name, dials)]
                  ELSE recs
    IN IF ui.recording_deleted
       THEN RemoveAt(edited, ui.deleted_recording_index)
       ELSE edited

\* lines 852-861: the pending batch rename
SyncRename(deleted, ui, w, b, fault) ==
    IF ui.recording_renamed
    THEN RecordingRename(deleted, ui.recording_names, w, b, fault)
    ELSE [list |-> deleted, error |-> "None", wav |-> w, bin |-> b, steps |-> <<>>]

\* lines 950: self.recordings is replaced; the rest is what the call did on the way
SyncResult(recs, ui, deleted, rename, wavSearch, binSearch, st) ==
    [recordings |-> Replacement(st.updated_recordings, rename.list),
     wav |-> rename.wav,
     bin |-> st.bin,
     obs |-> [pre |-> recs, ui |-> ui, edited |-> deleted,
              rename |-> [list |-> rename.list, error |-> rename.error,
                          steps |-> rename.steps],
              wavOk |-> wavSearch.ok, binOk |-> binSearch.ok,
              panic |-> wavSearch.panic \/ binSearch.panic,
              binBefore |-> rename.bin,
              wavBefore |-> rename.wav,
              file_names |-> ListingOr(wavSearch),
              snapshot_names |-> RemoveSettings(ListingOr(binSearch)),
              created |-> st.created,
              sent |-> (IF rename.error # "None" THEN <<rename.error>> ELSE <<>>)
                       \o (IF wavSearch.ok THEN <<>> ELSE <<"ReadError">>)
                       \o (IF binSearch.ok THEN <<>> ELSE <<"ReadError">>)]]

\* lines 889-948: the rebuild over the two listings
SyncRebuild(recs, ui, deleted, rename, wavSearch, binSearch) ==
    SyncResult(recs, ui, deleted, rename, wavSearch, binSearch,
               FilesLoop(rename.list, ListingOr(wavSearch), 1,
                         [updated_recordings |-> <<>>,
                          snapshot_names |-> RemoveSettings(ListingOr(binSearch)),
                          bin |-> rename.bin, created |-> <<>>]))

\* lines 864-887: the two ordered listings
SyncListing(recs, ui, deleted, rename, wFail, bFail) ==
    SyncRebuild(recs, ui, deleted, rename,
                Search(ReadDir(rename.wav), "wav", wFail, TRUE),
                Search(ReadDir(DOMAIN rename.bin \cup {SettingsName}), "bin", bFail, TRUE))

\* lines 852-948 on the catalog left by the pending edits
SyncPending(recs, ui, deleted, w, b, wFail, bFail, fault) ==
    SyncListing(recs, ui, deleted, SyncRename(deleted, ui, w, b, fault), wFail, bFail)

\* Settings::sync.  `ui` holds what the call reads from the UI: current_dial_values,
\* current_recording, dials_edited, recording_deleted, deleted_recording_index,
\* recording_renamed and recording_names.  The result holds the new recordings, the
\* new directory and what the call did on the way; `wFail`, `bFail` and `fault` are
\* the outcomes of the system calls it makes.
Sync(recs, w, b, wFail, bFail, fault, ui) ==
    SyncPending(recs, ui, SyncEdits(recs, ui), w, b, wFail, bFail, fault)

\* ------------------------------------------------------------------ initial state
Captured == << <<Dial, 1>> >>    \* a snapshot the Player persisted from a capture

NoUi == [current_dial_values |-> Zero, current_recording |-> 0, dials_edited |-> FALSE,
         recording_deleted |-> FALSE, deleted_recording_index |-> 0,
         recording_renamed |-> FALSE, recording_names |-> <<>>]

FsInit ==
    /\ wav = {}
    /\ bin = <<>>
    /\ wavListFail = FALSE
    /\ binListFail = FALSE

\* no sync call is being observed
NoSync == [fresh |-> FALSE]

\* Settings::new and Tracker::new
CatalogInit ==
    /\ recordings = <<>>
    /\ lastSync = NoSync

\* no session has run
NoSession == [pure |-> FALSE, start |-> Zero, cells |-> <<>>]

\* no sample was delivered
NoHeard == [samples |-> <<>>, kept |-> <<>>, falses |-> 0]

RecorderInit ==
    /\ rpc = "idle"
    /\ rqueue = <<>>
    /\ new_name = ""
    /\ empty_recording = TRUE
    /\ recording_check = FALSE
    /\ lastStart = [started |-> FALSE]
    /\ initial_silence = TRUE
    /\ writer = <<>>
    /\ heard = NoHeard

PlayerInit ==
    /\ ppc = "NoFileLoaded"
    /\ pqueue = <<>>
    /\ file = ""
    /\ length = 0
    /\ playback = [mode |-> "Generic", idx |-> 0]
    /\ capturing = FALSE
    /\ frame = 0
    /\ previous_frame = Zero
    /\ edited_frame = 0
    /\ snapshot = SnapShotNew
    /\ cell = Zero
    /\ playing = FALSE
    /\ capLog = <<>>
    /\ savedLog = [saved |-> FALSE]
    /\ cellLog = NoSession
    /\ received = "None"

\* the window before any callback ran: nothing plays or records, the first
\* recording is selected and the threads are starting
UiInit ==
    /\ window = [recording |-> FALSE, audio_playback |-> FALSE, input_playback |-> FALSE,
                 input_recording |-> FALSE, current_recording |-> 0,
                 starting_threads |-> TRUE]
    /\ preloaded = FALSE
    /\ occured = "None"

Init == FsInit /\ CatalogInit /\ RecorderInit /\ PlayerInit /\ UiInit /\ errors = "None"

\* ------------------------------------------------------------------ the control layer: on_save
ClipNames == {"a2", "a10"}
RenameNames == ClipNames \cup {"b", "", SettingsName, "Default taken... 1"}

\* the event loop runs one callback at a time: none is between its read of the error
\* cell and its clear
Ready == occured = "None"

\* the directory changes behind the program's back
Touched == lastSync' = NoSync

AddClip(n) ==
    /\ n \notin wav
    /\ Cardinality(wav) < MaxFiles
    /\ wav' = wav \cup {n}
    /\ Touched
    /\ UNCHANGED <<bin, wavListFail, binListFail, recordings, recVars, errors, playVars, uiVars>>

RemoveClip(n) ==
    /\ n \in wav
    /\ wav' = wav \ {n}
    /\ Touched
    /\ UNCHANGED <<bin, wavListFail, binListFail, recordings, recVars, errors, playVars, uiVars>>

\* a capture session persisted frames for clip n
PutSnapshot(n) ==
    /\ n \in wav
    /\ bin' = SnapShotSave(bin, n, Captured)
    /\ bin' # bin
    /\ Touched
    /\ UNCHANGED <<wav, wavListFail, binListFail, recordings, recVars, errors, playVars, uiVars>>

RemoveSnapshot(n) ==
    /\ n \in DOMAIN bin
    /\ bin' = [m \in DOMAIN bin \ {n} |-> bin[m]]
    /\ Touched
    /\ UNCHANGED <<wav, wavListFail, binListFail, recordings, recVars, errors, playVars, uiVars>>

SetListFail(w, b) ==
    /\ <<w, b>> # <<wavListFail, binListFail>>
    /\ wavListFail' = w
    /\ binListFail' = b
    /\ Touched
    /\ UNCHANGED <<wav, bin, recordings, recVars, errors, playVars, uiVars>>

\* a panic in a callback of the window unwinds the main thread: the process ends, and
\* its threads with it
Gone ==
    /\ occured' = "Aborted"
    /\ rpc' = "Crashed"
    /\ ppc' = "Crashed"

\* lines 1763-1785: the catalog and the directory after settings.sync(&ui), or after the
\* panic of a sort in it
Synced(r, unchanged) ==
    IF r.obs.panic
    THEN /\ Gone
         /\ wav' = r.obs.wavBefore
         /\ bin' = r.obs.binBefore
         /\ lastSync' = NoSync
         /\ UNCHANGED <<recordings, recording_check>>
    ELSE /\ recordings' = r.recordings
         /\ wav' = r.wav
         /\ bin' = r.bin
         /\ lastSync' = r.obs @@ [fresh |-> TRUE, follows |-> lastSync.fresh /\ unchanged]
         /\ UNCHANGED <<recording_check, rpc, ppc, occured>>

\* the body of ui.on_save with what the UI holds: the guard of lines 1759-1762, then
\* settings.sync(&ui) on directory (w, b)
OnSave(w, b, fault, ui) ==
    IF empty_recording /\ recording_check
    THEN /\ recording_check' = FALSE
         /\ wav' = w
         /\ bin' = b
         /\ UNCHANGED <<recordings, lastSync, rpc, ppc, occured>>
    ELSE Synced(Sync(recordings, w, b, wavListFail, binListFail, fault, ui),
                w = wav /\ b = bin)

\* the error slot after ui.on_save: ui.invoke_update() shows and clears it (lines
\* 1634-1641) unless the guard returned early
Updated == IF empty_recording /\ recording_check THEN errors ELSE "None"

\* ui.on_save invoked on its own
Save(w, b, fault, ui) ==
    /\ Ready
    /\ OnSave(w, b, fault, ui)
    /\ errors' = Updated
    /\ UNCHANGED <<wavListFail, binListFail, rqueue, new_name, hearVars, empty_recording,
                   lastStart, pqueue, file, length, playback, capturing, frame,
                   previous_frame, edited_frame, snapshot, cell, playing, capLog, savedLog,
                   cellLog, received, window, preloaded>>

\* on_save with nothing pending, or after a dial was turned
SaveDials ==
    \E edited \in BOOLEAN, dials \in ControlVectors, current \in 0..MaxFiles :
        /\ edited => current < Len(recordings)
        /\ ~edited => (dials = Zero /\ current = 0)
        /\ Save(wav, bin, "none", [NoUi EXCEPT !.dials_edited = edited,
                                       !.current_dial_values = dials,
                                       !.current_recording = current])

\* ui.on_delete_recordings: File::delete, then on_save with recording_deleted
DeleteRecordings ==
    \E index \in 0..(Len(recordings) - 1) :
        LET d == FileDelete(wav, bin, recordings[index + 1].name)
        IN Save(d.wav, d.bin, "none", [NoUi EXCEPT !.recording_deleted = TRUE,
                                           !.deleted_recording_index = index])

\* on_save after names were edited in the list, each to one of `choices` or left
\* as it is: recording_renamed
RenameRecordings(choices) ==
    /\ Len(recordings) > 0
    /\ \E names \in [1..Len(recordings) -> choices \cup Range(Names(recordings))],
          fault \in Faults :
          /\ \A i \in 1..Len(recordings) :
                names[i] \in choices \/ names[i] = recordings[i].name
          \* a failing system call is drawn only for a batch that asks for the name b
          /\ fault # "none" => \E i \in 1..Len(recordings) : names[i] = "b"
          /\ Save(wav, bin, fault, [NoUi EXCEPT !.recording_renamed = TRUE,
                                         !.recording_names = names])

\* ------------------------------------------------------------------ the Recorder thread
\* lines 1140-1149: the loop over taken_names from `item` (1-based) on
RECURSIVE NameLoop(_, _, _, _, _)
NameLoop(taken_names, item, potential, fallbacks, name) ==
    IF item > Len(taken_names) THEN name
    ELSE IF potential # taken_names[item]
         THEN NameLoop(taken_names, item + 1, potential, fallbacks, potential \o ".wav")
         ELSE "Default taken... " \o ToString(fallbacks + 1) \o ".wav"

\* lines 1127-1152: the file name of the new clip
NewName(taken_names) ==
    LET fallbacks == Cardinality({i \in 1..Len(taken_names) :
                                     Contains(taken_names[i], FallbackMarker)})
        recording_amount == Len(taken_names)
    IN IF recording_amount > 0
       THEN NameLoop(taken_names, 1, "Recording " \o ToString(recording_amount + 1),
                     fallbacks, "")
       ELSE "Recording 1.wav"

\* lines 1122-1125: File::search unordered, or the placeholder list when it fails
TakenNames(result) == IF result.ok THEN result.names ELSE <<Placeholder>>

\* the outcomes of WavWriter::create, recorder.start() and recorder.stop()
RecorderFaults == {"none", "create", "start", "stop"}

\* lines 1119-1213 once the name is chosen: the flags, the writer and the start
StartNamed(taken_names, name, fault) ==
    /\ empty_recording' = TRUE
    /\ recording_check' = TRUE
    /\ new_name' = name
    /\ initial_silence' = TRUE
    /\ writer' = <<>>
    /\ heard' = NoHeard
    /\ lastStart' = [started |-> TRUE, taken_names |-> taken_names, clips |-> wav,
                     failed |-> wavListFail, new_name |-> name, fault |-> fault,
                     before |-> errors]
    /\ IF fault = "create"
       THEN /\ errors' = "WriteError"
            /\ UNCHANGED <<wav, rpc>>
       ELSE /\ wav' = wav \cup {SubSeq(name, 1, Len(name) - 4)}
            /\ IF fault = "start"
               THEN errors' = "RecordError" /\ UNCHANGED rpc
               ELSE rpc' = "recording" /\ UNCHANGED errors

StartRecording(taken_names, fault) == StartNamed(taken_names, NewName(taken_names), fault)

\* a Recorder that takes StartRecording for the message it waits for in either state
StartAwaited(state) == "StartRecording"

\* lines 1112 and 1218: the one message that the Recorder acts on in `state`
Awaited(state) == IF state = "idle" THEN "StartRecording" ELSE "StopRecording"

\* the Recorder blocked at line 1110 takes a message
RecorderIdle ==
    /\ rpc = "idle"
    /\ rqueue # <<>>
    /\ rqueue' = Tail(rqueue)
    /\ IF Head(rqueue) = Awaited(rpc)
       THEN /\ \E fault \in RecorderFaults \ {"stop"} :
                  StartRecording(TakenNames(Search(ReadDir(wav), "wav", wavListFail, FALSE)),
                                 fault)
            /\ lastSync' = NoSync
            /\ UNCHANGED <<bin, wavListFail, binListFail, recordings, playVars, uiVars>>
       ELSE /\ errors' = "MessageError"
            /\ UNCHANGED <<fsVars, syncVars, rpc, new_name, hearVars, empty_recording,
                           recording_check, lastStart, playVars, uiVars>>

\* a sample: 0 is 0.0, 1 stands for every other value
Levels == {0, 1}

\* the buffers RUHear hands to the callback: one sequence of samples for each channel
Channels == UNION {[1..n -> Levels] : n \in 0..MaxBuffer}
Buffers == [left : Channels, right : Channels]

\* lines 1173-1178: the loop runs over the channel with the least data
Shortest(data) == Min(Len(data.left), Len(data.right))

\* a test of the first channel alone
SilentLeft(data, sample) == data.left[sample] = 0

\* line 1180: neither channel has audio at this sample
Silent(data, sample) == ~(data.left[sample] # 0 \/ data.right[sample] # 0)

\* `data` in the history of the delivered sample pairs
Delivered(log, data) ==
    log \o [i \in 1..Shortest(data) |-> <<data.left[i], data.right[i]>>]

\* the second channel pushed before the first
PushedSwapped(list, data, sample) == list \o <<data.right[sample], data.left[sample]>>

\* lines 1189-1190: the sample of each channel pushed to the interleaved list
Pushed(list, data, sample) == list \o <<data.left[sample], data.right[sample]>>

\* lines 1173-1192, from `sample` on (1-based): `st` holds initial_silence, the flag,
\* the interleaved list, and the history
RECURSIVE Callback(_, _, _)
Callback(data, sample, st) ==
    IF sample > Shortest(data) THEN st
    ELSE IF st.initial_silence
    THEN IF ~Silent(data, sample)
         THEN Callback(data, sample + 1,
                       [st EXCEPT !.initial_silence = FALSE, !.empty = FALSE,
                                  !.falses = @ + 1])
         ELSE Callback(data, sample + 1, st)
    ELSE Callback(data, sample + 1,
                  [st EXCEPT !.interleaved = Pushed(@, data, sample),
                             !.kept = Append(@, st.base + sample)])

\* lines 1194-1198: the interleaved list is written once the silence is over
Written(st) == IF ~st.initial_silence THEN writer \o st.interleaved ELSE writer

\* the state the callback leaves
Heard(data, st) ==
    /\ initial_silence' = st.initial_silence
    /\ empty_recording' = st.empty
    /\ writer' = Written(st)
    /\ heard' = [samples |-> Delivered(heard.samples, data), kept |-> st.kept,
                 falses |-> st.falses]

\* lines 1166-1199: RUHear calls record_callback with a buffer
RecorderHear(data) ==
    /\ rpc = "recording"
    /\ Len(heard.samples) + Shortest(data) <= MaxSamples
    /\ Heard(data, Callback(data, 1, [initial_silence |-> initial_silence,
                                      empty |-> empty_recording,
                                      interleaved |-> <<>>,
                                      base |-> Len(heard.samples),
                                      kept |-> heard.kept,
                                      falses |-> heard.falses]))
    /\ UNCHANGED <<fsVars, syncVars, rpc, rqueue, new_name, recording_check, lastStart,
                   errors, playVars, uiVars>>

\* the observation of a StopRecording: what failed in it
Stop(d, fault) ==
    [started |-> FALSE,
     stop |-> IF fault = "stop" THEN "stop"
              ELSE IF empty_recording /\ d.error # "None" THEN "delete" ELSE "none"]

\* a stop that leaves the error cell as it is
StopQuietly(d, fault) ==
    /\ lastStart' = Stop(d, fault)
    /\ UNCHANGED <<wav, bin, errors>>

\* lines 1226-1247: recorder.stop(), then the clip is deleted when nothing was heard
StopRecording(d, fault) ==
    /\ lastStart' = Stop(d, fault)
    /\ IF fault = "stop"
       THEN /\ errors' = "RecordError"
            /\ UNCHANGED <<wav, bin>>
       ELSE IF empty_recording
       THEN /\ wav' = d.wav
            /\ bin' = d.bin
            /\ errors' = IF d.error # "None" THEN "EmptyRecordingError" ELSE errors
       ELSE UNCHANGED <<wav, bin, errors>>

\* the Recorder blocked at line 1216 takes a message
RecorderWait ==
    /\ rpc = "recording"
    /\ rqueue # <<>>
    /\ rqueue' = Tail(rqueue)
    /\ IF Head(rqueue) = Awaited(rpc)
       THEN /\ \E fault \in {"none", "stop"} :
                  StopRecording(FileDelete(wav, bin, Truncate(new_name, ".", 0)), fault)
            /\ rpc' = "idle"
            /\ lastSync' = NoSync
            /\ initial_silence' = TRUE
            /\ writer' = <<>>
            /\ heard' = NoHeard
            /\ UNCHANGED <<wavListFail, binListFail, recordings, new_name, empty_recording,
                           recording_check, playVars, uiVars>>
       ELSE /\ errors' = "MessageError"
            /\ UNCHANGED <<fsVars, syncVars, rpc, new_name, hearVars, empty_recording,
                           recording_check, lastStart, playVars, uiVars>>

\* ------------------------------------------------------------------ messages to the Player
FileMessage(name) == [type |-> "File", name |-> name \o ".wav"]
PlayAudio(mode, data, index) ==
    [type |-> "PlayAudio", mode |-> mode, data |-> data, index |-> index]
StopAudio == [type |-> "StopAudio"]

\* load(name, LoadType::Snapshot)
Load(b, name) ==
    IF name \in DOMAIN b THEN [ok |-> TRUE, data |-> b[name]]
    ELSE [ok |-> FALSE, data |-> SnapShotNew]

\* lines 1896-1950: what one ui.on_skip_audio sends, the catalog being `recs`
SkipSends(recs, b, win) ==
    IF Len(recs) = 0 THEN <<>>
    ELSE LET name == recs[win.current_recording + 1].name
             one == FileMessage(name)
         IN (IF win.starting_threads THEN <<one>> ELSE <<one, one>>)
            \o (IF win.audio_playback
                THEN <<PlayAudio("Generic", Load(b, name).data, win.current_recording)>>
                ELSE IF win.input_playback
                THEN <<PlayAudio("Input", Load(b, name).data, win.current_recording)>>
                ELSE IF win.input_recording
                THEN <<PlayAudio("Capture", SnapShotNew, win.current_recording),
                       PlayAudio("Capture", SnapShotNew, win.current_recording)>>
                ELSE <<>>)

\* the window after one ui.on_skip_audio
Skipped(recs, win) ==
    IF Len(recs) = 0 THEN win ELSE [win EXCEPT !.starting_threads = FALSE]

\* sender_handle.send of `msgs` in turn: they are lost, and PlaybackError is written,
\* once the Player thread is gone
SentAfter(msgs, error) ==
    /\ Len(pqueue) + Len(msgs) <= MaxSends
    /\ IF ppc = "Crashed" /\ msgs # <<>>
       THEN pqueue' = pqueue /\ errors' = "PlaybackError"
       ELSE pqueue' = pqueue \o msgs /\ errors' = error

Sent(msgs) == SentAfter(msgs, errors)

\* ------------------------------------------------------------------ the Player thread
\* the duration of a clip, in ticks of the loop of lines 1381-1594
Duration(name) == MaxTicks

\* a clip that is read whatever the path
Found(path) == TRUE

\* line 1278: StaticSoundData::from_file reads the clip at `path`
Readable(path) == SubSeq(path, 1, Len(path) - 4) \in wav

\* the Player blocked at line 1274 takes a message
PlayerLoad ==
    /\ ppc = "NoFileLoaded"
    /\ pqueue # <<>>
    /\ pqueue' = Tail(pqueue)
    /\ LET msg == Head(pqueue)
       IN IF msg.type = "File"
          THEN IF Readable(msg.name)
               THEN /\ file' = msg.name
                    /\ length' = Duration(msg.name)
                    /\ preloaded' = TRUE
                    /\ ppc' = "FileLoaded"
                    /\ UNCHANGED errors
               ELSE /\ file' = msg.name
                    /\ errors' = "ReadError"
                    /\ UNCHANGED <<length, preloaded, ppc>>
          ELSE /\ errors' = "MessageError"
               /\ UNCHANGED <<file, length, preloaded, ppc>>
    /\ received' = "None"
    /\ Touched
    /\ UNCHANGED <<fsVars, recordings, recVars, playback, capturing, frame, previous_frame,
                   edited_frame, snapshot, cell, playing, capLog, savedLog, cellLog, window,
                   occured>>

\* the messages of the Recorder, which the one Message type lets the Player receive
StartMessage == [type |-> "StartRecording"]
StopMessage == [type |-> "StopRecording"]

\* a message that leaves the Player where it is
Stays(msg) == "FileLoaded"

\* lines 1302 and 1608-1612: where a message that starts no session leaves the Player
Waiting(msg) == IF msg.type = "File" THEN "NoFileLoaded" ELSE "FileLoaded"

\* a message that leaves the error cell as it is
Silence(msg) == errors

\* lines 1302 and 1608-1612: the error cell after a message that starts no session
Answer(msg) == IF msg.type \in {"File", "StopAudio"} THEN errors ELSE "MessageError"

\* the Player blocked at line 1300 takes a message
PlayerIdle ==
    /\ ppc = "FileLoaded"
    /\ pqueue # <<>>
    /\ pqueue' = Tail(pqueue)
    /\ LET msg == Head(pqueue)
       IN IF msg.type = "PlayAudio"
          THEN /\ ppc' = "Playing"
               /\ playback' = [mode |-> msg.mode, idx |-> msg.index]
               /\ capturing' = (msg.mode = "Capture")
               /\ frame' = 0
               /\ previous_frame' = Zero
               /\ edited_frame' = 0
               /\ snapshot' = msg.data
               /\ capLog' = <<>>
               /\ cellLog' = [pure |-> msg.mode = "Input", start |-> cell, cells |-> <<>>]
               /\ savedLog' = IF msg.mode = "Capture" THEN [saved |-> FALSE] ELSE savedLog
               /\ received' = "None"
               /\ UNCHANGED errors
          ELSE /\ ppc' = Waiting(msg)
               /\ errors' = Answer(msg)
               /\ received' = msg.type
               /\ UNCHANGED <<playback, capturing, frame, previous_frame, edited_frame,
                              snapshot, capLog, cellLog, savedLog>>
    /\ Touched
    /\ UNCHANGED <<fsVars, recordings, recVars, file, length, cell, playing, uiVars>>

\* the session is over: back to line 1300, or to line 1274 after a File message
Left(next) ==
    /\ ppc' = next
    /\ capturing' = FALSE
    /\ capLog' = <<>>
    /\ cellLog' = NoSession
    /\ UNCHANGED <<playback, frame, previous_frame, edited_frame, snapshot, cell>>

\* snapshot.save(..) of `frames` under the loaded clip's name
Persisted(frames, end) ==
    /\ bin' = SnapShotSave(bin, Truncate(file, ".", 0), frames)
    /\ savedLog' = [saved |-> TRUE, name |-> Truncate(file, ".", 0), frames |-> frames,
                    log |-> capLog, ticks |-> frame, end |-> end]

\* lines 1385-1437: StopAudio, File or PlayAudio(Capture) arrives during the session
Stopped(msg) ==
    IF capturing /\ snapshot = <<>>
    THEN /\ ppc' = "Crashed"
         /\ UNCHANGED <<bin, savedLog, playback, capturing, frame, previous_frame,
                        edited_frame, snapshot, cell, capLog, cellLog>>
    ELSE /\ IF capturing THEN Persisted(Tail(snapshot), "stopped")
            ELSE UNCHANGED <<bin, savedLog>>
         /\ Left(IF msg.type = "File" THEN "NoFileLoaded" ELSE "FileLoaded")

\* what one pass through lines 1452-1592 leaves; `crash` when it panics
Pass(snap, c, ef, prev, read) ==
    [crash |-> FALSE, snapshot |-> snap, cell |-> c, edited_frame |-> ef,
     previous_frame |-> prev, read |-> read]

Panic == [crash |-> TRUE]

\* lines 1578-1590: the cursor follows the keyframes while not capturing
Cursor(st) ==
    IF st.crash \/ capturing THEN st
    ELSE LET i == IF st.edited_frame < Len(st.snapshot) THEN st.edited_frame
                  ELSE st.edited_frame - 1
         IN IF i < 0 \/ i >= Len(st.snapshot) THEN Panic
            ELSE IF frame = st.snapshot[i + 1][2]
                 THEN [st EXCEPT !.edited_frame = @ + 1]
                 ELSE st

\* SnapShot::edited
Edited(previous, next) == \E number \in 1..6 : previous[number] # next[number]

\* lines 1512-1527: the Capture branch, the catalog entry holding `controls`
CaptureBranch(snap, c, controls) ==
    IF Edited(previous_frame, controls)
    THEN IF edited_frame >= Len(snap) + 1 THEN Panic
         ELSE Pass(Append(snap, <<controls, frame>>), c, edited_frame + 1,
                   Append(snap, <<controls, frame>>)[edited_frame + 1][1], <<controls>>)
    ELSE Pass(snap, c, edited_frame, previous_frame, <<controls>>)

\* lines 1452-1576: the branch of the mode
Branch(mode, snap, c) ==
    IF mode = "Input"
    THEN IF edited_frame < Len(snap) /\ frame = snap[edited_frame + 1][2]
         THEN Pass(snap, snap[edited_frame + 1][1], edited_frame, previous_frame, <<>>)
         ELSE Pass(snap, c, edited_frame, previous_frame, <<>>)
    ELSE IF playback.idx >= Len(recordings) THEN Panic
    ELSE IF mode = "Capture" THEN CaptureBranch(snap, c, recordings[playback.idx + 1].controls)
    ELSE Pass(snap, c, edited_frame, previous_frame, <<>>)

\* the tick is done: `st` is what its pass left
Ticked(mode, pure, st) ==
    IF st.crash
    THEN /\ ppc' = "Crashed"
         /\ UNCHANGED <<playback, capturing, frame, previous_frame, edited_frame, snapshot,
                        cell, capLog, cellLog>>
    ELSE /\ playback' = [playback EXCEPT !.mode = mode]
         /\ snapshot' = st.snapshot
         /\ cell' = st.cell
         /\ edited_frame' = st.edited_frame
         /\ previous_frame' = st.previous_frame
         /\ frame' = frame + 1
         /\ capLog' = capLog \o st.read
         /\ cellLog' = [cellLog EXCEPT !.pure = pure, !.cells = Append(@, st.cell)]
         /\ UNCHANGED <<ppc, capturing>>

\* the tick of the old mode, the new mode kept for the next one
SwappedLate(msg) == Ticked(msg.mode, FALSE, Cursor(Branch(playback.mode, snapshot, cell)))

\* lines 1439-1449: PlayAudio of another mode arrives during the session
Swapped(msg) ==
    IF msg.mode = "Input"
    THEN IF edited_frame >= Len(msg.data)
         THEN Ticked(msg.mode, FALSE, Panic)
         ELSE Ticked(msg.mode, FALSE,
                     Cursor(Branch(msg.mode, msg.data, msg.data[edited_frame + 1][1])))
    ELSE Ticked(msg.mode, FALSE, Cursor(Branch(msg.mode, snapshot, cell)))

\* a poll that takes all that is queued
Drained(queue) == <<>>

\* line 1383: the queue after try_recv, which takes the oldest message if there is one
Polled(queue) == IF queue = <<>> THEN queue ELSE Tail(queue)

\* one iteration of the loop of lines 1381-1594
PlayerTick ==
    /\ ppc = "Playing"
    /\ frame < length
    /\ pqueue' = Polled(pqueue)
    /\ IF pqueue = <<>> \/ Head(pqueue) \in {StartMessage, StopMessage}
       THEN /\ Ticked(playback.mode, cellLog.pure, Cursor(Branch(playback.mode, snapshot, cell)))
            /\ UNCHANGED <<bin, savedLog>>
       ELSE IF Head(pqueue).type = "PlayAudio" /\ Head(pqueue).mode # "Capture"
       THEN /\ Swapped(Head(pqueue))
            /\ UNCHANGED <<bin, savedLog>>
       ELSE Stopped(Head(pqueue))
    /\ Touched
    /\ UNCHANGED <<wav, wavListFail, binListFail, recordings, recVars, errors, file, length,
                   playing, received, uiVars>>

\* the end of the clip without the write of line 1596
FinishUnflagged ==
    /\ ppc = "Playing"
    /\ frame >= length
    /\ IF capturing THEN Persisted(snapshot, "completed")
       ELSE UNCHANGED <<bin, savedLog>>
    /\ Left("FileLoaded")
    /\ Touched
    /\ UNCHANGED <<wav, wavListFail, binListFail, recordings, recVars, errors, pqueue, file,
                   length, playing, received, uiVars>>

\* lines 1596-1606: the clip has played to its end
PlayerFinish ==
    /\ ppc = "Playing"
    /\ frame >= length
    /\ playing' = TRUE
    /\ IF capturing THEN Persisted(snapshot, "completed")
       ELSE UNCHANGED <<bin, savedLog>>
    /\ Left("FileLoaded")
    /\ Touched
    /\ UNCHANGED <<wav, wavListFail, binListFail, recordings, recVars, errors, pqueue, file,
                   length, received, uiVars>>

\* ------------------------------------------------------------------ the control layer: playback
\* a playback button is pressed once the Player has taken all but MaxPending of the
\* messages sent before
Pressable == Ready /\ Len(pqueue) <= MaxPending

\* lines 2137-2162 and the like: the File message sent when nothing is preloaded
Preload ==
    IF preloaded THEN <<>>
    ELSE <<FileMessage(IF Len(recordings) > 0
                       THEN recordings[window.current_recording + 1].name
                       ELSE "")>>

\* the three playback flags of the window
Flags(win, audio, input, recording) ==
    [win EXCEPT !.audio_playback = audio, !.input_playback = input,
                !.input_recording = recording]

\* ui.on_capture_inputs
CaptureInputs ==
    /\ Pressable
    /\ window.current_recording < Len(recordings) \/ Len(recordings) = 0
    /\ IF window.input_playback
       THEN /\ Sent(Preload \o <<StopAudio>>)
            /\ window' = Flags(window, FALSE, FALSE, FALSE)
       ELSE /\ Sent(Preload \o <<PlayAudio("Capture", SnapShotNew, window.current_recording)>>)
            /\ window' = Flags(window, FALSE, FALSE, TRUE)
    /\ Touched
    /\ UNCHANGED <<fsVars, recordings, recVars, ppc, file, length, playback, capturing, frame,
                   previous_frame, edited_frame, snapshot, cell, playing, capLog, savedLog,
                   cellLog, received, preloaded, occured>>

\* ui.on_play_captured_inputs, the snapshot of the selected recording loading
PlayCapturedInputs ==
    /\ Pressable
    /\ window.current_recording < Len(recordings)
    /\ Load(bin, recordings[window.current_recording + 1].name).ok
    /\ cell' = recordings[window.current_recording + 1].controls
    /\ IF window.input_playback
       THEN /\ Sent(Preload \o <<StopAudio>>)
            /\ window' = Flags(window, FALSE, FALSE, FALSE)
       ELSE /\ Sent(Preload
                    \o <<PlayAudio("Input",
                                   Load(bin, recordings[window.current_recording + 1].name).data,
                                   window.current_recording)>>)
            /\ window' = Flags(window, FALSE, TRUE, FALSE)
    /\ Touched
    /\ UNCHANGED <<fsVars, recordings, recVars, ppc, file, length, playback, capturing, frame,
                   previous_frame, edited_frame, snapshot, playing, capLog, savedLog,
                   cellLog, received, preloaded, occured>>

\* ui.on_play_generic, the snapshot of the selected recording loading
PlayGeneric ==
    /\ Pressable
    /\ window.current_recording < Len(recordings)
    /\ Load(bin, recordings[window.current_recording + 1].name).ok
    /\ IF window.audio_playback
       THEN /\ Sent(Preload \o <<StopAudio>>)
            /\ window' = Flags(window, FALSE, FALSE, FALSE)
       ELSE /\ Sent(Preload
                    \o <<PlayAudio("Generic",
                                   Load(bin, recordings[window.current_recording + 1].name).data,
                                   window.current_recording)>>)
            /\ window' = Flags(window, TRUE, FALSE, FALSE)
    /\ Touched
    /\ UNCHANGED <<fsVars, recordings, recVars, ppc, file, length, playback, capturing, frame,
                   previous_frame, edited_frame, snapshot, cell, playing, capLog, savedLog,
                   cellLog, received, preloaded, occured>>

\* what the window holds when nothing is pending
Pending == [NoUi EXCEPT !.current_recording = window.current_recording]

\* a dial of the selected recording is turned: on_save with dials_edited
TurnDial ==
    /\ window.current_recording < Len(recordings)
    /\ \E dials \in ControlVectors :
          /\ dials # recordings[window.current_recording + 1].controls
          /\ Save(wav, bin, "none", [Pending EXCEPT !.dials_edited = TRUE,
                                                    !.current_dial_values = dials])

\* ------------------------------------------------------------------ the control layer: on_record
\* lines 1812-1815 on the window `win`: on_save, then on_skip_audio twice
RecordStopped(win) ==
    /\ OnSave(wav, bin, "none", Pending)
    /\ SentAfter(SkipSends(recordings', bin', win)
                 \o SkipSends(recordings', bin', Skipped(recordings', win)),
                 Updated)
    /\ window' = Skipped(recordings', win)
    /\ preloaded' = FALSE

\* ui.on_record
Record ==
    /\ Ready
    /\ Len(rqueue) < MaxQueue
    /\ IF window.recording
       THEN /\ rqueue' = Append(rqueue, "StopRecording")
            /\ RecordStopped([window EXCEPT !.recording = FALSE])
            /\ lastStart' = [started |-> FALSE]
            /\ UNCHANGED <<wavListFail, binListFail, new_name, hearVars, empty_recording,
                           file, length, playback, capturing, frame,
                           previous_frame, edited_frame, snapshot, cell, playing, capLog,
                           savedLog, cellLog, received>>
       ELSE /\ Cardinality(wav) < MaxFiles
            /\ rqueue' = Append(rqueue, "StartRecording")
            /\ window' = [window EXCEPT !.recording = TRUE]
            /\ UNCHANGED <<fsVars, syncVars, rpc, new_name, hearVars, empty_recording,
                           recording_check, lastStart, errors, playVars, preloaded, occured>>

\* ------------------------------------------------------------------ the control layer: on_check_for_errors
\* the window's audio_or_input_playback property
AudioOrInputPlayback(win) == win.audio_playback \/ win.input_playback

\* lines 2338-2361: the File message for the current recording, after a MessageError
\* read while something plays or is captured
Reload(error) ==
    IF error = "MessageError" /\ (AudioOrInputPlayback(window) \/ window.input_recording)
    THEN <<FileMessage(IF Len(recordings) > 0
                       THEN recordings[window.current_recording + 1].name
                       ELSE "")>>
    ELSE <<>>

\* line 2330: ui.on_check_for_errors reads the error cell and finds an error
CheckRead ==
    /\ Ready
    /\ errors # "None"
    /\ occured' = errors
    /\ UNCHANGED <<fsVars, syncVars, recVars, errors, playVars, window, preloaded>>

\* lines 2331-2371: the rest of ui.on_check_for_errors for the error it read: the
\* reload (a send that fails is ignored), the flags, the error shown, the cell cleared
CheckForErrors ==
    /\ ~Ready
    /\ occured # "Aborted"
    /\ window.current_recording < Len(recordings) \/ Len(recordings) = 0
    /\ Len(pqueue) + Len(Reload(occured)) <= MaxSends
    /\ pqueue' = IF ppc = "Crashed" THEN pqueue ELSE pqueue \o Reload(occured)
    /\ window' = [Flags(window, FALSE, FALSE, FALSE) EXCEPT !.recording = FALSE]
    /\ errors' = "None"
    /\ occured' = "None"
    /\ Touched
    /\ UNCHANGED <<fsVars, recordings, recVars, ppc, file, length, playback, capturing, frame,
                   previous_frame, edited_frame, snapshot, cell, playing, capLog, savedLog,
                   cellLog, received, preloaded>>

\* ------------------------------------------------------------------ the control layer: on_sync_playing_with_backend
\* the values of the window's playback property that the callback tells apart
PlaybackTypes == {"None", "Loop", "AutoNext"}

\* lines 2232-2258: the recording AutoNext moves to; `index` is the entry of the shuffle
\* order that a shuffling window takes once the catalog holds more than two recordings
AutoNext(win, shuffle, index) ==
    [win EXCEPT !.current_recording =
        IF shuffle /\ Len(recordings) > 2 THEN index
        ELSE IF win.current_recording = Len(recordings) - 1 THEN 0
        ELSE win.current_recording + 1]

\* lines 2264-2286: the message that plays the current recording again
Replay(win) ==
    PlayAudio(IF win.audio_playback THEN "Generic"
              ELSE IF win.input_playback THEN "Input" ELSE "Generic",
              Load(bin, recordings[win.current_recording + 1].name).data,
              win.current_recording)

\* lines 2221-2293: what Loop and AutoNext send from the window `win`, and the window
\* they leave
Restart(win, type) ==
    IF win.input_recording
    THEN [msgs |-> <<StopAudio>>, win |-> Flags(win, FALSE, FALSE, FALSE), skipped |-> FALSE]
    ELSE IF type = "AutoNext"
    THEN [msgs |-> SkipSends(recordings, bin, win) \o <<Replay(win)>>,
          win |-> Skipped(recordings, win), skipped |-> TRUE]
    ELSE [msgs |-> <<Replay(win)>>, win |-> win, skipped |-> FALSE]

\* ui.on_sync_playing_with_backend finding the flag set: the reaction to the end of the
\* clip by the window's playback property, then the flag reset (line 2296); a send to
\* a Player that is gone writes MessageError
SyncPlayingWithBackend ==
    /\ Ready
    /\ playing
    /\ \E type \in PlaybackTypes, shuffle \in BOOLEAN, index \in 0..MaxFiles :
          IF type = "None"
          THEN /\ window' = Flags(window, FALSE, FALSE, FALSE)
               /\ UNCHANGED <<pqueue, errors, preloaded>>
          ELSE LET win == IF type = "AutoNext" /\ ~window.input_recording
                          THEN AutoNext(window, shuffle, index) ELSE window
               IN /\ index < Len(recordings)
                  /\ win.current_recording < Len(recordings)
                  /\ Len(pqueue) + Len(Restart(win, type).msgs) <= MaxSends
                  /\ IF ppc = "Crashed"
                     THEN pqueue' = pqueue /\ errors' = "MessageError"
                     ELSE pqueue' = pqueue \o Restart(win, type).msgs /\ errors' = errors
                  /\ window' = Restart(win, type).win
                  /\ preloaded' = IF Restart(win, type).skipped THEN FALSE ELSE preloaded
    /\ playing' = FALSE
    /\ Touched
    /\ UNCHANGED <<fsVars, recordings, recVars, ppc, file, length, playback, capturing, frame,
                   previous_frame, edited_frame, snapshot, cell, capLog, savedLog, cellLog,
                   received, occured>>

\* reconciliation against a directory that changes and may fail to list
NextSync ==
    \/ \E n \in ClipNames : AddClip(n)
    \/ \E n \in ClipNames : RemoveClip(n)
    \/ \E n \in ClipNames : PutSnapshot(n)
    \/ \E n \in ClipNames \cup {Placeholder} : RemoveSnapshot(n)
    \/ \E w, b \in BOOLEAN : SetListFail(w, b)
    \/ SaveDials
    \/ DeleteRecordings

SpecSync == Init /\ [][NextSync]_vars

\* batch renames against a directory that changes
NextRename ==
    \/ \E n \in ClipNames : AddClip(n)
    \/ \E n \in ClipNames \cup {"b"} : RemoveClip(n)
    \/ SaveDials
    \/ RenameRecordings(RenameNames)

SpecRename == Init /\ [][NextRename]_vars

\* syncs and batch renames over a directory that holds clips with names that do not
\* decode
NextNames ==
    \/ \E n \in {"a2"} \cup Undecodable : AddClip(n)
    \/ \E n \in {"a2"} \cup Undecodable : RemoveClip(n)
    \/ SaveDials
    \/ RenameRecordings({"b"})

SpecNames == Init /\ [][NextNames]_vars

\* recordings started and stopped over a directory that changes and may fail to list
RecorderClips == {"Recording 2"}

\* the one buffer of these sessions: sound on both channels
RecorderBuffers == {[left |-> <<1, 1>>, right |-> <<1, 1>>]}

NextRecorder ==
    \/ \E n \in RecorderClips : AddClip(n)
    \/ \E w \in BOOLEAN : SetListFail(w, FALSE)
    \/ Record
    \/ RecorderIdle
    \/ \E data \in RecorderBuffers : RecorderHear(data)
    \/ RecorderWait
    \/ PlayerLoad
    \/ PlayerIdle

SpecRecorder == Init /\ [][NextRecorder]_vars

\* one recording at a time, with every buffer the callback can be given
NextCapture ==
    \/ Record
    \/ RecorderIdle
    \/ \E data \in Buffers : RecorderHear(data)
    \/ RecorderWait
    \/ PlayerLoad
    \/ PlayerIdle

SpecCapture == Init /\ [][NextCapture]_vars

\* on_save with nothing pending
Refresh == Save(wav, bin, "none", Pending)

\* recordings with the error checks of the event loop
NextErrors ==
    \/ \E n \in {"Recording 1"} : RemoveClip(n)
    \/ Record
    \/ RecorderIdle
    \/ \E data \in RecorderBuffers : RecorderHear(data)
    \/ RecorderWait
    \/ PlayerLoad
    \/ PlayerIdle
    \/ CheckRead
    \/ CheckForErrors

SpecErrors == Init /\ [][NextErrors]_vars

\* the program starts over a directory that holds clips, and lists them
OrderNames ==
    {"Recording 1", "Recording 2", "Recording 10", "a2", "a10", "ab", "b1", "ba", "2b",
     "10"}

InitOrder ==
    /\ wav \in {clips \in SUBSET OrderNames : Cardinality(clips) <= MaxListed}
    /\ bin = <<>>
    /\ wavListFail = FALSE
    /\ binListFail = FALSE
    /\ CatalogInit /\ RecorderInit /\ PlayerInit /\ UiInit /\ errors = "None"

NextOrder ==
    \/ Refresh
    \/ \E n \in OrderNames : RemoveClip(n)

SpecOrder == InitOrder /\ [][NextOrder]_vars

\* a message is put on the Player's channel
Deliver(msg) ==
    /\ Len(pqueue) < MaxQueue
    /\ pqueue' = Append(pqueue, msg)
    /\ Touched
    /\ UNCHANGED <<fsVars, recordings, recVars, errors, ppc, file, length, playback,
                   capturing, frame, previous_frame, edited_frame, snapshot, cell, playing,
                   capLog, savedLog, cellLog, received, uiVars>>

\* the Player under every message of the Message type
Messages ==
    {FileMessage("a2"), FileMessage("b"), StopAudio, StartMessage, StopMessage,
     PlayAudio("Generic", SnapShotNew, 0)}

NextProtocol ==
    \/ \E n \in {"a2", "b"} : AddClip(n)
    \/ Refresh
    \/ \E msg \in Messages : Deliver(msg)
    \/ PlayerLoad
    \/ PlayerIdle
    \/ PlayerTick
    \/ PlayerFinish

SpecProtocol == Init /\ [][NextProtocol]_vars

\* playback buttons pressed while a clip is captured or played
NextSwitch ==
    \/ AddClip("a2")
    \/ Refresh
    \/ CaptureInputs
    \/ PlayCapturedInputs
    \/ PlayGeneric
    \/ PlayerLoad
    \/ PlayerIdle
    \/ PlayerTick
    \/ PlayerFinish

SpecSwitch == Init /\ [][NextSwitch]_vars

\* input captures with on_save and the error checks of the event loop
NextReload ==
    \/ AddClip("a2")
    \/ CaptureInputs
    \/ Refresh
    \/ PlayerLoad
    \/ PlayerIdle
    \/ PlayerTick
    \/ PlayerFinish
    \/ CheckRead
    \/ CheckForErrors

SpecReload == Init /\ [][NextReload]_vars


\* capture and replay of the dials of one clip
NextPlayer ==
    \/ AddClip("a2")
    \/ Refresh
    \/ TurnDial
    \/ CaptureInputs
    \/ PlayCapturedInputs
    \/ PlayerLoad
    \/ PlayerIdle
    \/ PlayerTick
    \/ PlayerFinish

SpecPlayer == Init /\ [][NextPlayer]_vars

\* ------------------------------------------------------------------ properties of sync
\* the entry of `list` that the rebuild finds for `name`: the first with that name
Carried(list, name) ==
    IF \E i \in 1..Len(list) : list[i].name = name
    THEN list[CHOOSE i \in 1..Len(list) :
                  /\ list[i].name = name
                  /\ \A j \in 1..(i - 1) : list[j].name # name].controls
    ELSE Zero

\* the ordered clip listing of the directory as it is
ClipListing == SortBy([i \in 1..Len(ReadDir(wav)) |-> ListedName(ReadDir(wav)[i], "wav")])

\* a sync call with nothing pending in the UI
Quiet == lastSync.ui = NoUi

\* C2: in a sync call whose listings succeed, every clip gets a seed snapshot created
\* exactly when the directory held no snapshot of its name, and a snapshot that was
\* there is the same after the call
C2_SeedIffMissing ==
    (lastSync.fresh /\ lastSync.wavOk /\ lastSync.binOk) =>
        \A n \in Range(lastSync.file_names) :
            /\ (n \in Range(lastSync.created)) <=> (n \notin DOMAIN lastSync.binBefore)
            /\ n \in DOMAIN lastSync.binBefore => bin[n] = lastSync.binBefore[n]

C8_SecondSyncSame ==
    (lastSync.fresh /\ lastSync.follows /\ Quiet) => recordings = lastSync.pre

\* a second quiet sync call over two recordings, one with turned dials
C8_Witness ==
    /\ lastSync.fresh
    /\ lastSync.follows
    /\ Quiet
    /\ Len(recordings) = 2
    /\ recordings[1].controls = Dial

\* C9: a sync call whose clip or snapshot listing failed reports the error, goes on
\* with no name for that listing, and makes no recording and no snapshot out of it
C9_FailedListingIsEmpty ==
    (lastSync.fresh /\ ~(lastSync.wavOk /\ lastSync.binOk)) =>
        /\ "ReadError" \in Range(lastSync.sent)
        /\ ~lastSync.wavOk => (lastSync.file_names = <<>> /\ recordings = <<>>
                               /\ lastSync.created = <<>>)
        /\ ~lastSync.binOk => lastSync.snapshot_names = <<>>

\* ------------------------------------------------------------------ properties of the batch rename
\* the errors the checks of Recording::rename hold against asking for name `n`
\* where the catalog is `old`
Rejections(n, old) ==
    (IF Contains(n, FallbackMarker) THEN {"FallbackError"} ELSE {})
    \cup (IF n = SettingsName THEN {"SaveFileRenameError"} ELSE {})
    \cup (IF n = "" THEN {"EmptyError"} ELSE {})
    \cup (IF Exists(n, old) THEN {"ExistsError"} ELSE {})

\* entry i of the batch asks for another name, and the checks hold something against it
Rejected(i) ==
    /\ lastSync.ui.recording_names[i] # lastSync.edited[i].name
    /\ Rejections(lastSync.ui.recording_names[i], lastSync.edited) # {}

\* a sync call that ran a batch rename
Renaming == lastSync.fresh /\ lastSync.ui.recording_renamed

\* C3: the list a batch rename returns is as long as the catalog it was given; an
\* entry whose name was not changed is in it as it was, and an entry that asked for
\* a name nothing is held against has that name, whatever else was rejected
C3_RejectionIsLocal ==
    Renaming =>
        /\ Len(lastSync.rename.list) = Len(lastSync.edited)
        /\ \A i \in 1..Len(lastSync.edited) :
              LET n == lastSync.ui.recording_names[i]
              IN /\ n = lastSync.edited[i].name => lastSync.rename.list[i] = lastSync.edited[i]
                 /\ (n # lastSync.edited[i].name /\ ~Rejected(i)) =>
                        lastSync.rename.list[i] = RecordingFrom(n, lastSync.edited[i].controls)

\* C4: an entry of a batch that asks for "settings", for the empty name, for a name
\* of the catalog or for a name with the fallback marker is in the returned list
\* under its old name, no file was renamed for it, and the error returned is one
\* the checks hold against a rejected entry (against this one when it is the only one)
C4_RejectedKeepsName ==
    Renaming =>
        \A i \in 1..Len(lastSync.edited) :
            Rejected(i) =>
                /\ i <= Len(lastSync.rename.list)
                /\ lastSync.rename.list[i].name = lastSync.edited[i].name
                /\ \A k \in 1..Len(lastSync.rename.steps) : lastSync.rename.steps[k].index # i
                /\ \E j \in 1..Len(lastSync.edited) :
                      /\ Rejected(j)
                      /\ lastSync.rename.error
                            \in Rejections(lastSync.ui.recording_names[j], lastSync.edited)

\* a clip, a snapshot and a catalog entry all carry the name
Carry(name) ==
    /\ name \in wav
    /\ name \in DOMAIN bin
    /\ name \in Range(Names(recordings))

\* C5: after a sync call that followed a sync call on an unchanged directory, for
\* every entry its batch rename called File::rename for, either the clip, the
\* snapshot and the entry carry the new name and nothing is left under the old
\* one, or the three carry the old name and no clip or entry has the new one
C5_RenameAllOrNothing ==
    (Renaming /\ lastSync.follows) =>
        \A k \in 1..Len(lastSync.rename.steps) :
            LET step == lastSync.rename.steps[k]
            IN \/ /\ Carry(step.new)
                  /\ step.old \notin wav
                  /\ step.old \notin DOMAIN bin
                  /\ step.old \notin Range(Names(recordings))
               \/ /\ Carry(step.old)
                  /\ step.new \notin wav
                  /\ step.new \notin Range(Names(recordings))

\* C6: the names of the catalog are pairwise distinct
C6_NamesDistinct ==
    \A i, j \in 1..Len(recordings) : recordings[i].name = recordings[j].name => i = j

\* ------------------------------------------------------------------ properties of the Recorder
\* the name the new clip is to get over the clips `clips`
Expected(clips) ==
    LET N == Cardinality(clips)
        k == Cardinality({n \in clips : Contains(n, FallbackMarker)})
    IN IF N = 0 THEN "Recording 1"
       ELSE IF ("Recording " \o ToString(N + 1)) \in clips
            THEN "Default taken... " \o ToString(k + 1)
            ELSE "Recording " \o ToString(N + 1)

\* C10: the clip a StartRecording creates over N >= 1 clips is named "Recording {N+1}",
\* or "Default taken... {k+1}" when a clip has exactly that name, k being the number
\* of clip names that contain "Default taken..."; over no clips it is named
\* "Recording 1"
C10_NewClipName ==
    lastStart.started => lastStart.new_name = Expected(lastStart.clips) \o ".wav"

\* ------------------------------------------------------------------ properties of the Player
\* the catalog value before tick t of the persisted capture session (ticks from 0)
Before(t) == IF t = 0 THEN Zero ELSE savedLog.log[t]

\* the catalog changed at tick t of the persisted capture session
ChangedAt(t) == t < Len(savedLog.log) /\ savedLog.log[t + 1] # Before(t)

\* the session in progress replays, in Input mode throughout, the snapshot that a
\* session in Capture mode throughout persisted for the loaded clip
Replaying ==
    /\ ppc = "Playing"
    /\ cellLog.pure
    /\ savedLog.saved
    /\ savedLog.ticks = Len(savedLog.log)
    /\ savedLog.name = Truncate(file, ".", 0)
    /\ snapshot = savedLog.frames

\* C1: a replay in Input mode of the snapshot a capture session persisted publishes,
\* at each tick at which the catalog value changed during the capture, the value the
\* catalog had at that tick, and at any other tick leaves the cell as it is or at the
\* value the catalog had at that tick
C1_ReplayReproduces ==
    Replaying =>
        \A t \in 0..(Len(cellLog.cells) - 1) :
            IF ChangedAt(t)
            THEN cellLog.cells[t + 1] = savedLog.log[t + 1]
            ELSE \/ cellLog.cells[t + 1] = (IF t = 0 THEN cellLog.start ELSE cellLog.cells[t])
                 \/ t < Len(savedLog.log) /\ cellLog.cells[t + 1] = savedLog.log[t + 1]


\* ------------------------------------------------------------------ the capture callback
\* the first position of the delivered sample pairs at which a channel is not zero, or 0
FirstSound(samples) ==
    IF \A i \in 1..Len(samples) : samples[i] = <<0, 0>> THEN 0
    ELSE CHOOSE i \in 1..Len(samples) :
             /\ samples[i] # <<0, 0>>
             /\ \A j \in 1..(i - 1) : samples[j] = <<0, 0>>

\* C11: during a recording session (a sample being a position at which both channels
\* of the buffer hold a value) the callback has written no sample of a position before
\* the first one at which a channel is not zero, the shared flag is true exactly when
\* every sample delivered so far was zero on both channels, which is therefore what
\* StopRecording finds, and false was written to the flag at most once
C11_SilenceTrimmed ==
    rpc = "recording" =>
        /\ empty_recording <=> FirstSound(heard.samples) = 0
        /\ \A i \in 1..Len(heard.kept) :
               /\ FirstSound(heard.samples) # 0
               /\ heard.kept[i] >= FirstSound(heard.samples)
        /\ Len(writer) = 2 * Len(heard.kept)
        /\ heard.falses <= 1

\* a session that began with silence, then sound, has written a sample and is about to
\* process StopRecording
C11_Witness ==
    /\ rpc = "recording"
    /\ rqueue # <<>>
    /\ Head(rqueue) = "StopRecording"
    /\ FirstSound(heard.samples) > 1
    /\ writer # <<>>
    /\ ~empty_recording

\* ------------------------------------------------------------------ the Recorder's protocol
\* C12: the messages in flight to the Recorder alternate, and the one the Recorder is
\* about to receive is StartRecording exactly when no session is active (StopRecording
\* exactly when one is)
C12_StartStopAlternate ==
    /\ \A i \in 1..(Len(rqueue) - 1) : rqueue[i] # rqueue[i + 1]
    /\ rqueue # <<>> => (Head(rqueue) = "StartRecording" <=> rpc = "idle")

\* ------------------------------------------------------------------ mode switches
\* a tick of a session reads PlayAudio of another mode, not Capture, from the queue
SwitchPolled ==
    /\ ppc = "Playing"
    /\ pqueue # <<>>
    /\ Head(pqueue).type = "PlayAudio"
    /\ Head(pqueue).mode \notin {"Capture", playback.mode}
    /\ pqueue' = Tail(pqueue)
    /\ frame' = frame + 1

\* C13 as stated: on the tick that reads the switch out of a Capture session the
\* handling is still that of Capture, which reads the dials of the catalog
C13_SwitchOnNextTick ==
    [][SwitchPolled /\ playback.mode = "Capture" => Len(capLog') = Len(capLog) + 1]_vars

\* C13: the tick that reads the switch is handled in the new mode: the mode is the
\* message's, no Capture step is taken, and a switch to Input has put the message's
\* frames in place as the session's snapshot
C13_SwitchOnSameTick ==
    [][SwitchPolled =>
          /\ playback'.mode = Head(pqueue).mode
          /\ capLog' = capLog
          /\ Head(pqueue).mode = "Input" => snapshot' = Head(pqueue).data]_vars

\* a session that began capturing has read a switch at the tick it has just done
C13_Witness ==
    /\ ppc = "Playing"
    /\ capturing
    /\ playback.mode # "Capture"
    /\ capLog # <<>>
    /\ frame = Len(capLog) + 1

\* ------------------------------------------------------------------ the ordered listing
\* the orders in which the file system can enumerate the clips
Enumerations(clips) ==
    {e \in [1..Cardinality(clips) -> clips] : Range(e) = clips}

\* the ordered listing of the clips enumerated as `e`
Listing(e) == Search(e, "wav", FALSE, TRUE).names

\* C14: after a sync whose listing succeeded, the ordered listing it took is the one
\* every enumeration order of the directory gives, and no two distinct clip names
\* compare Equal
C14_OrderIgnoresEnumeration ==
    (lastSync.fresh /\ lastSync.wavOk) =>
        /\ \A e \in Enumerations(wav) : Listing(e) = lastSync.file_names
        /\ \A x, y \in wav : x # y => Compare(x, y) # "Equal"

\* the runs of a name, case folded
Runs(name) == split_text_and_numbers(ToLowercase(name))

\* the runs at which two names with runs of the same kinds differ
Differing(x, y) == {i \in 1..Len(Runs(x)) : Runs(x)[i] # Runs(y)[i]}

\* the same text runs, and exactly one integer run that differs
OneNumberApart(x, y) ==
    /\ Len(Runs(x)) = Len(Runs(y))
    /\ \A i \in 1..Len(Runs(x)) : Runs(x)[i].kind = Runs(y)[i].kind
    /\ Cardinality(Differing(x, y)) = 1
    /\ \A i \in Differing(x, y) : Runs(x)[i].kind = "Number"

\* x holds the smaller integer at the run where the two names differ
SmallerNumber(x, y) == \A i \in Differing(x, y) : Runs(x)[i].number < Runs(y)[i].number

\* C15: after a sync whose listing succeeded, of two clip names with the same
\* case-folded text runs and exactly one differing integer run the one with the smaller
\* integer comes first in the listing the sync took, and "Recording 2", "Recording 10",
\* "Recording 1" are listed as "Recording 1", "Recording 2", "Recording 10"
C15_SmallerNumberFirst ==
    (lastSync.fresh /\ lastSync.wavOk) =>
        /\ \A i, j \in 1..Len(lastSync.file_names) :
               (/\ OneNumberApart(lastSync.file_names[i], lastSync.file_names[j])
                /\ SmallerNumber(lastSync.file_names[i], lastSync.file_names[j])) => i < j
        /\ wav = {"Recording 2", "Recording 10", "Recording 1"} =>
               lastSync.file_names = <<"Recording 1", "Recording 2", "Recording 10">>

\* ------------------------------------------------------------------ failures of the Recorder
\* the Recorder takes StartRecording at line 1110 and the attempt fails
StartFailed ==
    /\ rpc = "idle"
    /\ rqueue # <<>>
    /\ Head(rqueue) = "StartRecording"
    /\ rqueue' = Tail(rqueue)
    /\ lastStart'.fault # "none"

\* the Recorder takes StopRecording at line 1216 and the stop or the deletion fails
StopFailed ==
    /\ rpc = "recording"
    /\ rqueue # <<>>
    /\ Head(rqueue) = "StopRecording"
    /\ rqueue' = Tail(rqueue)
    /\ lastStart'.stop # "none"

\* C16: a step of the Recorder in which the writer cannot be created, capture cannot
\* start or stop, or the empty clip cannot be deleted leaves the error of that failure
\* in the error cell and the Recorder blocked for StartRecording; and every step
\* leaves the Recorder at one of its two receives
C16_FailureReturnsToIdle ==
    [][/\ StartFailed =>
             /\ rpc' = "idle"
             /\ errors' = IF lastStart'.fault = "create" THEN "WriteError"
                           ELSE "RecordError"
       /\ StopFailed =>
             /\ rpc' = "idle"
             /\ errors' = IF lastStart'.stop = "stop" THEN "RecordError"
                           ELSE "EmptyRecordingError"
       /\ rpc' \in {"idle", "recording"}]_vars

\* the empty clip of a session could not be deleted, and the Recorder is idle again
C16_Witness ==
    /\ rpc = "idle"
    /\ ~lastStart.started
    /\ "stop" \in DOMAIN lastStart
    /\ lastStart.stop = "delete"
    /\ errors = "EmptyRecordingError"

\* ------------------------------------------------------------------ the error cell
\* the error the control layer has read when it clears the cell: the one
\* on_check_for_errors holds, or the one on_update reads as it runs
Consumed == IF Ready THEN errors ELSE occured

\* something is played or captured, as the window has it
Active == window.audio_playback \/ window.input_playback \/ window.input_recording

\* the File message for the current recording
Current ==
    FileMessage(IF Len(recordings) > 0 THEN recordings[window.current_recording + 1].name
                ELSE "")

\* C17: a step in which the control layer clears the error cell after reading
\* MessageError, something being played or captured, sends the File message for the
\* current recording to the Player
C17_ReloadOnMessageError ==
    [][(errors' = "None" /\ Consumed = "MessageError" /\ Active) =>
           pqueue' = Append(pqueue, Current)]_vars

\* C18: a step that clears the error cell erases the error the control layer has read
\* and presents in that step, no other
C18_ClearErasesWhatWasRead ==
    [][(errors' = "None" /\ errors # "None") => errors = Consumed]_vars

\* ------------------------------------------------------------------ the Player at line 1300
\* the Player, a clip loaded and no session running, takes a message of type `type`
Takes(type) ==
    /\ ppc = "FileLoaded"
    /\ pqueue # <<>>
    /\ Head(pqueue).type = type
    /\ pqueue' = Tail(pqueue)

\* C19 as stated: a File message taken with a clip loaded leaves the Player with the
\* clip of the message loaded
C19_FileLoadsAtOnce ==
    [][Takes("File") => ppc' = "FileLoaded" /\ file' = Head(pqueue).name]_vars

\* C19: a File message taken with a clip loaded is dropped with its path: the Player
\* goes to its first receive, nothing loaded anew, and the clip is loaded by the next
\* File message it takes there
C19_FileNeedsSecondMessage ==
    [][Takes("File") => ppc' = "NoFileLoaded" /\ file' = file /\ length' = length]_vars

\* the Player has taken the File message of an existing clip while another clip was
\* loaded, and no message is left
C19_Witness ==
    /\ received = "File"
    /\ ppc = "NoFileLoaded"
    /\ file = "a2.wav"
    /\ "b" \in wav
    /\ pqueue = <<>>

\* C20 as stated: StopAudio, StartRecording and StopRecording taken with a clip loaded
\* write MessageError and leave the Player where it is, with its clip
C20_OthersAreErrors ==
    [][(Takes("StopAudio") \/ Takes("StartRecording") \/ Takes("StopRecording")) =>
           errors' = "MessageError" /\ ppc' = "FileLoaded" /\ file' = file]_vars

\* C20: StartRecording and StopRecording taken with a clip loaded write MessageError,
\* StopAudio leaves the error cell as it is, and all three leave the Player where it
\* is, with its clip
C20_StopAudioIsSilent ==
    [][/\ (Takes("StartRecording") \/ Takes("StopRecording")) =>
             errors' = "MessageError" /\ ppc' = "FileLoaded" /\ file' = file
       /\ Takes("StopAudio") =>
             errors' = errors /\ ppc' = "FileLoaded" /\ file' = file]_vars

\* the Player has taken StopAudio with a clip loaded, and the error cell is empty
C20_Witness ==
    /\ received = "StopAudio"
    /\ ppc = "FileLoaded"
    /\ file = "a2.wav"
    /\ errors = "None"

\* ------------------------------------------------------------------ the Player at line 1274
\* the Player, no clip loaded, takes a message
TakesFirst ==
    /\ ppc = "NoFileLoaded"
    /\ pqueue # <<>>
    /\ pqueue' = Tail(pqueue)

\* the directory holds the clip of a File message
ClipThere(msg) == \E n \in wav : msg.name = n \o ".wav"

\* C21: with no clip loaded the Player leaves its first receive only for a File message
\* whose clip is read, the clip of the message then being the loaded one; a File
\* message whose clip is not read writes ReadError, every other message writes
\* MessageError, and both leave the Player at its first receive with the length it had
C21_OnlyReadableFileLoads ==
    [][TakesFirst =>
           IF Head(pqueue).type = "File" /\ ClipThere(Head(pqueue))
           THEN ppc' = "FileLoaded" /\ file' = Head(pqueue).name /\ errors' = errors
           ELSE /\ ppc' = "NoFileLoaded"
                /\ length' = length
                /\ errors' = IF Head(pqueue).type = "File" THEN "ReadError"
                              ELSE "MessageError"]_vars

\* a File message whose clip is missing has been answered with ReadError
C21_Witness ==
    /\ ppc = "NoFileLoaded"
    /\ errors = "ReadError"
    /\ file = "b.wav"
    /\ "b" \notin wav

\* ------------------------------------------------------------------ the Player's tick loop
\* a tick of a session reads a PlayAudio message, not PlayAudio(Capture) in a session
\* that is capturing
ModePolled ==
    /\ ppc = "Playing"
    /\ pqueue # <<>>
    /\ Head(pqueue).type = "PlayAudio"
    /\ ~(Head(pqueue).mode = "Capture" /\ capturing)
    /\ pqueue' = Tail(pqueue)

\* C22: the tick that reads such a message leaves the session playing in the mode of
\* the message, Generic, Input or Capture, its tick counter going on from where it was
C22_ModeHotSwap ==
    [][ModePolled =>
           /\ ppc' = "Playing"
           /\ playback'.mode = Head(pqueue).mode
           /\ frame' = frame + 1]_vars

\* the tick loop of a session that is capturing ends with the clip played to its end
CaptureCompletes ==
    /\ ppc = "Playing"
    /\ capturing
    /\ frame >= length
    /\ ppc' = "FileLoaded"

\* C23: a capturing session whose clip plays to its end persists, under the base name
\* of the clip, its keyframe list without the seed frame at its head, as a session that
\* StopAudio ends does
C23_CompletionDropsSeed ==
    [][CaptureCompletes =>
           /\ savedLog'.saved
           /\ savedLog'.name = Truncate(file, ".", 0)
           /\ savedLog'.frames = Tail(snapshot)
           /\ bin' = SnapShotSave(bin, Truncate(file, ".", 0), Tail(snapshot))]_vars

\* a tick of the session runs the Capture branch
CaptureTick ==
    /\ ppc = "Playing"
    /\ playback'.mode = "Capture"
    /\ frame' = frame + 1

\* the value of the keyframe captured last, the zero vector of the seed frame before any
LastCaptured == snapshot[Len(snapshot)][1]

\* C24: a tick in Capture mode appends the keyframe (catalog value, tick) if and only if
\* the catalog value of the recording differs from the value of the keyframe captured
\* last, so that no two captured keyframes in a row carry the same value
C24_CaptureOnChangeOnly ==
    [][CaptureTick =>
           /\ snapshot' = IF recordings[playback.idx + 1].controls # LastCaptured
                          THEN Append(snapshot, <<recordings[playback.idx + 1].controls, frame>>)
                          ELSE snapshot
           /\ \A i \in 1..(Len(snapshot') - 1) : snapshot'[i][1] # snapshot'[i + 1][1]]_vars

\* C25: the keyframes of a snapshot that the Player persisted, at a stop, at a load, at
\* PlayAudio(Capture) or at the end of the clip, have strictly increasing frame indices
C25_PersistedIndicesIncrease ==
    savedLog.saved =>
        \A i \in 1..(Len(savedLog.frames) - 1) :
            savedLog.frames[i][2] < savedLog.frames[i + 1][2]

\* a tick of the session runs the Input branch, over the keyframes of snapshot'
InputTick ==
    /\ ppc = "Playing"
    /\ playback'.mode = "Input"
    /\ frame' = frame + 1

\* the keyframe under the cursor carries the index of this tick
Due == edited_frame < Len(snapshot') /\ snapshot'[edited_frame + 1][2] = frame

\* C26: a tick in Input mode at which the next keyframe not yet consumed carries the
\* index of the tick publishes the value of that keyframe and moves the cursor on by
\* one; any other tick in Input mode leaves the published value as it was
C26_InputAppliesDueKeyframe ==
    [][InputTick =>
           IF Due
           THEN cell' = snapshot'[edited_frame + 1][1] /\ edited_frame' = edited_frame + 1
           ELSE cell' = cell]_vars

\* a tick of the session reads StopAudio
StopPolled ==
    /\ ppc = "Playing"
    /\ pqueue # <<>>
    /\ Head(pqueue) = StopAudio
    /\ pqueue' = Tail(pqueue)

\* the keyframes are captures of this session: each carries the catalog value that the
\* session read at the tick of its index
CapturedHere(frames) ==
    \A i \in 1..Len(frames) :
        /\ frames[i][2] < Len(capLog)
        /\ frames[i][1] = capLog[frames[i][2] + 1]

\* C27: the tick that reads StopAudio takes the Player to FileLoaded and publishes no
\* value; a capturing session persists, under the base name of the clip, the keyframes
\* it captured, the seed frame at their head removed, and any other session persists
\* nothing
C27_StopEndsAndPersists ==
    [][StopPolled =>
           /\ ppc' = "FileLoaded"
           /\ cell' = cell
           /\ IF capturing
              THEN /\ bin' = SnapShotSave(bin, Truncate(file, ".", 0), Tail(snapshot))
                   /\ CapturedHere(Tail(snapshot))
              ELSE bin' = bin]_vars

\* ------------------------------------------------------------------ the end of the clip
\* sessions of the three modes that end by themselves or are ended, and the control
\* layer's reaction to the flag
NextFinish ==
    \/ AddClip("a2")
    \/ Refresh
    \/ CaptureInputs
    \/ PlayCapturedInputs
    \/ PlayGeneric
    \/ PlayerLoad
    \/ PlayerIdle
    \/ PlayerTick
    \/ PlayerFinish
    \/ SyncPlayingWithBackend

SpecFinish == Init /\ [][NextFinish]_vars

\* the tick loop ends with the clip played to its end
NaturalEnd ==
    /\ ppc = "Playing"
    /\ frame >= length
    /\ ppc' = "FileLoaded"

\* the Player thread takes a step
PlayerStep == ppc' # ppc \/ frame' # frame \/ Len(pqueue') < Len(pqueue)

TickStep == ppc = "Playing" /\ frame < length /\ PlayerStep

RecorderTakes == rqueue # <<>> /\ rqueue' = Tail(rqueue)

\* the message at the head of the queue is not the one for the Recorder's state
Unexpected ==
    \/ rpc = "idle" /\ Head(rqueue) # "StartRecording"
    \/ rpc = "recording" /\ Head(rqueue) # "StopRecording"

\* C30: the Recorder that takes a message other than StartRecording while idle, or
\* other than StopRecording while recording, writes MessageError and stays as it is,
\* the file, the name and the flags of the session as they were; it changes state at
\* no other step than one that takes the message for its state
C30_UnexpectedIsMessageError ==
    [][/\ (RecorderTakes /\ Unexpected) =>
              /\ errors' = "MessageError"
              /\ rpc' = rpc
              /\ UNCHANGED <<wav, bin, new_name, writer, initial_silence, heard,
                             empty_recording, recording_check>>
       /\ rpc' # rpc => RecorderTakes /\ ~Unexpected]_vars

\* the Recorder took a second StartRecording while recording: the error cell, empty
\* when the session started, holds MessageError, the recording goes on, and the Player
\* has taken no message
C30_Witness ==
    /\ lastStart.started
    /\ lastStart.before = "None"
    /\ rpc = "recording"
    /\ errors = "MessageError"
    /\ rqueue = <<>>
    /\ ppc = "NoFileLoaded"
    /\ file = ""

\* ------------------------------------------------------------------ the end of a recording
\* the Recorder takes StopRecording during a session
StopTaken ==
    /\ rpc = "recording"
    /\ rqueue # <<>>
    /\ Head(rqueue) = "StopRecording"
    /\ rqueue' = Tail(rqueue)

\* no sample pair delivered in the session has a channel that is not zero
NothingHeard == \A i \in 1..Len(heard.samples) : heard.samples[i] = <<0, 0>>

\* the base name of the session's clip
SessionClip == Truncate(new_name, ".", 0)

\* C31: the StopRecording that ends a session in which nothing but zero was delivered
\* leaves no clip of the session on disk, writes EmptyRecordingError when the clip
\* could not be deleted, and takes the Recorder to idle; after a session in which a
\* non-zero sample was delivered the directory is as it was
C31_EmptySessionDeleted ==
    [][StopTaken =>
           /\ rpc' = "idle"
           /\ IF NothingHeard
              THEN /\ SessionClip \notin wav'
                   /\ SessionClip \notin wav => errors' = "EmptyRecordingError"
              ELSE wav' = wav /\ bin' = bin]_vars

\* ------------------------------------------------------------------ the written clip
\* the samples of `pairs` in the order of the file: of each pair the first channel, then
\* the second
Interleave(pairs) ==
    [i \in 1..(2 * Len(pairs)) |-> pairs[(i + 1) \div 2][IF i % 2 = 1 THEN 1 ELSE 2]]

\* the delivered pairs from position `first` on
From(first) == SubSeq(heard.samples, first, Len(heard.samples))

\* C32 as stated: the clip of a session holds the first pair with a channel that is not
\* zero and every pair delivered after it, in order, first channel then second
C32_ClipFromFirstSound ==
    (rpc = "recording" /\ FirstSound(heard.samples) # 0) =>
        writer = Interleave(From(FirstSound(heard.samples)))

\* C32 as the code has it: the clip of a session holds every pair delivered after the
\* first pair with a channel that is not zero, zero pairs included, in order, first
\* channel then second; the first such pair itself is not written, and nothing is
\* written before one was delivered
C32_ClipAfterFirstSound ==
    rpc = "recording" =>
        writer = IF FirstSound(heard.samples) = 0 THEN <<>>
                 ELSE Interleave(From(FirstSound(heard.samples) + 1))

\* a session heard sound, then a zero pair and a pair that differs on its channels, and
\* has written the last two
C32_Witness ==
    /\ rpc = "recording"
    /\ heard.samples = << <<1, 1>>, <<0, 0>>, <<0, 1>> >>
    /\ writer = <<0, 0, 0, 1>>

\* ------------------------------------------------------------------ text runs and integer runs
\* the name starts with one of the ten digits
DigitFirst(name) == name # "" /\ \E d \in 1..Len(Digits) : Char(name, 1) = Char(Digits, d)

\* the first position at which the runs of the two names are of different kinds, or 0
FirstMixed(x, y) ==
    LET mixed == {i \in 1..Min(Len(Runs(x)), Len(Runs(y))) : Runs(x)[i].kind # Runs(y)[i].kind}
    IN IF mixed = {} THEN 0 ELSE CHOOSE i \in mixed : \A j \in mixed : i <= j

\* the position of the clip in the listing the sync took
Listed(name) == CHOOSE i \in 1..Len(lastSync.file_names) : lastSync.file_names[i] = name

C34_KeyframesWithinBounds ==
    [][(ppc = "Playing" /\ playback.idx < Len(recordings)) => ppc' # "Crashed"]_vars

\* C35: a snapshot that the Player persisted holds at least one keyframe, also that of
\* a capture session stopped before a change of the dials was captured
C35_PersistedNotEmpty ==
    savedLog.saved => Len(savedLog.frames) >= 1

\* a session ends: at a message that stops it or with the clip played to its end
SessionEnds == ppc = "Playing" /\ ppc' \in {"FileLoaded", "NoFileLoaded"}

\* C36: the step that ends a session persists a snapshot if and only if the mode of the
\* session is Capture at that step; a session in Generic or Input mode, also one that
\* started in Capture mode, leaves the snapshot files as they are
C36_PersistedIffCaptureMode ==
    [][SessionEnds =>
           /\ savedLog' # savedLog <=> playback.mode = "Capture"
           /\ playback.mode # "Capture" => bin' = bin]_vars

\* ------------------------------------------------------------------ the catalog during playback
\* clips are played and captured while recordings are deleted and the directory is
\* listed again
NextCatalog ==
    \/ AddClip("a2")
    \/ RemoveClip("a2")
    \/ Refresh
    \/ DeleteRecordings
    \/ PlayGeneric
    \/ CaptureInputs
    \/ PlayerLoad
    \/ PlayerIdle
    \/ PlayerTick
    \/ PlayerFinish

SpecCatalog == Init /\ [][NextCatalog]_vars

\* C37: while a session plays in Generic or Capture mode, the index of its recording
\* is below the number of recordings of the catalog, whatever syncs and deletions
\* replace the list meanwhile
C37_IndexWithinCatalog ==
    (ppc = "Playing" /\ playback.mode \in {"Generic", "Capture"}) =>
        playback.idx < Len(recordings)

\* ------------------------------------------------------------------ the name of a new clip
\* C38: the name the Recorder chose at the last StartRecording is not the base name of
\* a clip that was on disk, whatever the clips were and whether or not they could be
\* listed
C38_NewNameNotOnDisk ==
    lastStart.started => Truncate(lastStart.new_name, ".", 0) \notin lastStart.clips

\* ------------------------------------------------------------------ the comparator as an order
\* Ordering::reverse
Reverse(ordering) ==
    IF ordering = "Less" THEN "Greater" ELSE IF ordering = "Greater" THEN "Less" ELSE "Equal"

\* C39: over the clip names of the directory the comparator answers for (b, a) the
\* reverse of its answer for (a, b), Less is transitive, and Equal is transitive
C39_ComparatorConsistent ==
    \A a, b, c \in wav :
        /\ Compared(a, b) = Reverse(Compared(b, a))
        /\ (Compared(a, b) = "Less" /\ Compared(b, c) = "Less") => Compared(a, c) = "Less"
        /\ (Compared(a, b) = "Equal" /\ Compared(b, c) = "Equal") => Compared(a, c) = "Equal"

\* ------------------------------------------------------------------ the comparator's answers
\* the program starts over a directory whose clips are named with one run, some of them an
\* integer at or above i32::MAX, and lists them
CompareNames == {"a", "10", "2147483647", "2147483648", "Recording 3000000000"}

InitCompare ==
    /\ wav \in {clips \in SUBSET CompareNames : Cardinality(clips) <= MaxListed}
    /\ bin = <<>>
    /\ wavListFail = FALSE
    /\ binListFail = FALSE
    /\ CatalogInit /\ RecorderInit /\ PlayerInit /\ UiInit /\ errors = "None"

NextCompare ==
    \/ Refresh
    \/ \E n \in CompareNames : RemoveClip(n)

SpecCompare == InitCompare /\ [][NextCompare]_vars

\* C40: the comparison of every two clip names of the directory answers Less, Equal or
\* Greater, and no listing of the directory ends the program, whatever integers the digit
\* runs of the names denote
C40_ComparisonAnswers ==
    /\ \A a, b \in wav : Compared(a, b) \in {"Less", "Equal", "Greater"}
    /\ occured # "Aborted"

====
